---- MODULE Spec2Model ----
(***************************************************************************)
(* A model of conqp/ldaptools: the identifier allocator, the password      *)
(* hash resolver, the distinguished-name model, the LDIF document model,   *)
(* the builders of user and group documents and the command line           *)
(* operations with their temporary file and directory utility.             *)
(*                                                                         *)
(* Python strings are modelled as sequences of one-character strings, so   *)
(* that splitting, joining, stripping and formatting are computed and not  *)
(* assumed.  An optional value (None or a value v) is modelled as the      *)
(* sequence <<>> (None) or <<v>> (the value v).                            *)
(***************************************************************************)
EXTENDS Integers, Sequences, FiniteSets, TLC

VARIABLES
    passwd,      \* uids of the local account database (pwd.getpwall)
    group,       \* gids of the local group database (grp.getgrall)
    directory,   \* documents the directory sink has committed, in order
    pc,          \* position of each ldapuser invocation
    args,        \* command line arguments of each invocation
    doc,         \* identifiers each invocation has put into its document
    dbAtRead,    \* account database content at each invocation's reads
    call,        \* the function call in progress, with its result
    ldif,        \* an LDIF document: the (key, value) items of the dict
    cli,         \* the command line operation in progress
    tmp,         \* the temporary files that exist
    sink         \* the runs of the directory utilities in the operation

vars ==
    <<passwd, group, directory, pc, args, doc, dbAtRead, call, ldif, cli,
      tmp, sink>>

(***************************************************************************)
(* Bounds of the model.                                                    *)
(***************************************************************************)
MaxPool == 3
NumProcs == 2

(***************************************************************************)
(* Program constants.                                                      *)
(***************************************************************************)
ID_MIN == 2000

None == <<>>
Some(v) == <<v>>

NoCall == [op |-> "none"]

\* No command line operation has been started.
NoCli ==
    [pc |-> "idle", action |-> "none", a |-> <<>>, env |-> <<>>,
     index |-> 0, built |-> <<>>, return_code |-> 0, outcome |-> <<>>]

(***************************************************************************)
(* Identifier allocator.                                                   *)
(***************************************************************************)
\* Identifiers the model draws pools and databases from: one identifier
\* below ID_MIN and MaxPool + 1 identifiers from ID_MIN on.
IdUniverse == (ID_MIN - 1)..(ID_MIN + MaxPool)

\* range(lo, hi): the ascending half-open pool the scan iterates over.
range(lo, hi) == [lo |-> lo, hi |-> hi]

Members(pool) == {i \in IdUniverse : pool.lo <= i /\ i < pool.hi}

Returned(v) == [status |-> "ok", value |-> v]
Raised(e) == [status |-> e]

\* for ident in pool: if ident not in used: return ident
RECURSIVE scan(_, _, _)
scan(ident, hi, used) ==
    IF ident >= hi THEN Raised("IdentifiersExhausted")
    ELSE IF ident \notin used THEN Returned(ident)
    ELSE scan(ident + 1, hi, used)

\* A scan that starts one identifier too late.
get_unique_identifier_skipfirst(pool, used) ==
    scan(pool.lo + 1, pool.hi, used)

\* A scan that gives up although a later identifier is free.
get_unique_identifier_giveup(pool, used) ==
    IF pool.lo < pool.hi /\ pool.lo \notin used THEN Returned(pool.lo)
    ELSE Raised("IdentifiersExhausted")

get_unique_identifier(pool, used) == scan(pool.lo, pool.hi, used)

\* The identifiers of a kind in the documents the directory holds.
RECURSIVE Numbers(_, _)
Numbers(docs, field) ==
    IF docs = <<>> THEN {}
    ELSE {Head(docs)[field]} \cup Numbers(Tail(docs), field)

\* The accounts and groups the system knows: the local ones and the ones
\* the directory serves.
UidDatabase == passwd \cup Numbers(directory, "uidNumber")
GidDatabase == group \cup Numbers(directory, "gidNumber")

\* A snapshot that also holds the identifiers of documents that other
\* invocations have built and not yet handed to the sink (a reservation).
getpwall_reserving ==
    UidDatabase \cup {doc[q].uidNumber[1] :
                        q \in {r \in 1..NumProcs : doc[r].uidNumber # None}}

getpwall == UidDatabase
getgrall == GidDatabase

\* An allocator that remembers the identifiers it has handed out to the
\* invocations before this one.
get_uid_remembering(pool) ==
    get_unique_identifier(
        pool,
        getpwall \cup {doc[q].uidNumber[1] :
                         q \in {r \in 1..NumProcs : doc[r].uidNumber # None}})

get_uid(pool) == get_unique_identifier(pool, getpwall)
get_gid(pool) == get_unique_identifier(pool, getgrall)

(***************************************************************************)
(* Specification SpecAlloc: one allocator call on any pool and databases.  *)
(***************************************************************************)
Pools == {range(lo, hi) : lo \in IdUniverse, hi \in IdUniverse}

NoProcs == [p \in 1..NumProcs |-> "idle"]
NoArgs == [p \in 1..NumProcs |-> [uid |-> None, gid |-> None]]
NoDocs == [p \in 1..NumProcs |-> [uidNumber |-> None, gidNumber |-> None]]
NoReads == [p \in 1..NumProcs |-> [uid |-> {}, gid |-> {}]]
EmptyLDIF == <<>>

PureVars == <<directory, pc, args, doc, dbAtRead, ldif, cli, tmp, sink>>

InitPure ==
    /\ directory = <<>>
    /\ pc = NoProcs
    /\ args = NoArgs
    /\ doc = NoDocs
    /\ dbAtRead = NoReads
    /\ ldif = EmptyLDIF
    /\ call = NoCall
    /\ cli = NoCli
    /\ tmp = {}
    /\ sink = <<>>

InitAlloc ==
    /\ passwd \in SUBSET IdUniverse
    /\ group \in SUBSET IdUniverse
    /\ InitPure

CallGetUid ==
    /\ call = NoCall
    /\ \E pool \in Pools :
         call' = [op |-> "get_uid", pool |-> pool, used |-> getpwall,
                  result |-> get_uid(pool)]
    /\ UNCHANGED <<passwd, group>>
    /\ UNCHANGED PureVars

CallGetGid ==
    /\ call = NoCall
    /\ \E pool \in Pools :
         call' = [op |-> "get_gid", pool |-> pool, used |-> getgrall,
                  result |-> get_gid(pool)]
    /\ UNCHANGED <<passwd, group>>
    /\ UNCHANGED PureVars

ReturnCall ==
    /\ call # NoCall
    /\ call' = NoCall
    /\ UNCHANGED <<passwd, group>>
    /\ UNCHANGED PureVars

NextAlloc == CallGetUid \/ CallGetGid \/ ReturnCall

SpecAlloc == InitAlloc /\ [][NextAlloc]_vars

IsAllocCall == call.op \in {"get_uid", "get_gid"}

FreeMembers(pool, used) == Members(pool) \ used

\* C1: whenever some pool member is free, the allocator returns an
\* identifier of the pool that is not in the snapshot and is less than or
\* equal to every other free pool member (so the result is a function of
\* the pool and the snapshot alone).
C1_LowestFree ==
    (IsAllocCall /\ FreeMembers(call.pool, call.used) # {}) =>
        /\ call.result.status = "ok"
        /\ call.result.value \in Members(call.pool)
        /\ call.result.value \notin call.used
        /\ \A other \in FreeMembers(call.pool, call.used) :
             call.result.value <= other

\* C1 witness: a call that skipped used identifiers and returned a later
\* free one, while a still larger pool member was free too.
C1_Witness ==
    /\ IsAllocCall
    /\ call.result.status = "ok"
    /\ call.result.value > call.pool.lo
    /\ \E other \in FreeMembers(call.pool, call.used) :
         other > call.result.value

\* C2: the allocator fails with IdentifiersExhausted, returning no
\* identifier, exactly when every pool member is in the snapshot (an empty
\* pool included).
C2_ExhaustedIff ==
    IsAllocCall =>
        /\ (call.result.status = "IdentifiersExhausted")
             <=> (Members(call.pool) \subseteq call.used)
        /\ call.result.status \in {"ok", "IdentifiersExhausted"}
        /\ (call.result.status = "IdentifiersExhausted")
             => ("value" \notin DOMAIN call.result)

\* C2 witness: a non-empty pool all of whose members are taken.
C2_Witness ==
    /\ IsAllocCall
    /\ call.result.status = "IdentifiersExhausted"
    /\ Cardinality(Members(call.pool)) >= 2

\* C2 witness, second case: an empty pool (min >= max).
C2_WitnessEmptyPool ==
    /\ IsAllocCall
    /\ call.result.status = "IdentifiersExhausted"
    /\ call.pool.lo >= call.pool.hi

(***************************************************************************)
(* Password hash resolver.                                                 *)
(***************************************************************************)
MaxOut == 3

Whitespace == {" ", "\n"}

\* All strings over an alphabet up to a length.
Strings(alphabet, n) == UNION {[1..k -> alphabet] : k \in 0..n}

RECURSIVE lstrip(_)
lstrip(s) ==
    IF s # <<>> /\ Head(s) \in Whitespace THEN lstrip(Tail(s)) ELSE s

RECURSIVE rstrip(_)
rstrip(s) ==
    IF s # <<>> /\ s[Len(s)] \in Whitespace
    THEN rstrip(SubSeq(s, 1, Len(s) - 1))
    ELSE s

\* str.strip(): removes whitespace at both ends.
strip(s) == rstrip(lstrip(s))

PwResult(status, value, invoked) ==
    [status |-> status, value |-> value, invoked |-> invoked]

\* A hashing wrapper that hands the output on as the utility wrote it.
slappasswd_unstripped(plain, run) ==
    IF run.exit # 0
    THEN PwResult("CalledProcessError", None, <<plain>>)
    ELSE PwResult("ok", Some(run.stdout), <<plain>>)

\* check_output([slappasswd, '-s', passwd], text=True).strip(); run is what
\* the external utility does: its exit status and what it writes.
slappasswd(plain, run) ==
    IF run.exit # 0
    THEN PwResult("CalledProcessError", None, <<plain>>)
    ELSE PwResult("ok", Some(strip(run.stdout)), <<plain>>)

\* A resolver that takes the hash when both arguments are given.
get_pwhash_lenient(plain, pwhash, run) ==
    IF pwhash # None THEN PwResult("ok", pwhash, <<>>)
    ELSE IF plain # None THEN slappasswd(plain[1], run)
    ELSE PwResult("ValueError", None, <<>>)

get_pwhash(plain, pwhash, run) ==
    IF plain # None /\ pwhash = None THEN slappasswd(plain[1], run)
    ELSE IF plain = None /\ pwhash # None THEN PwResult("ok", pwhash, <<>>)
    ELSE PwResult("ValueError", None, <<>>)

Plaintexts == {<<>>, <<"p">>, <<"q">>}
Hashes == {<<>>, <<"h">>, <<"h", "\n">>, <<" ", "h">>}
Runs == {[exit |-> 1, stdout |-> <<>>]}
        \cup {[exit |-> 0, stdout |-> s] :
                s \in Strings({"h", " ", "\n"}, MaxOut)}

Optional(S) == {None} \cup {Some(v) : v \in S}

InitPwhash ==
    /\ passwd = {}
    /\ group = {}
    /\ InitPure

CallGetPwhash ==
    /\ call = NoCall
    /\ \E plain \in Optional(Plaintexts), pwhash \in Optional(Hashes),
          run \in Runs :
         call' = [op |-> "get_pwhash", passwd |-> plain, pwhash |-> pwhash,
                  run |-> run, result |-> get_pwhash(plain, pwhash, run)]
    /\ UNCHANGED <<passwd, group>>
    /\ UNCHANGED PureVars

NextPwhash == CallGetPwhash \/ ReturnCall

SpecPwhash == InitPwhash /\ [][NextPwhash]_vars

IsPwhashCall == call.op = "get_pwhash"

ExactlyOne(a, b) == (a = None) # (b = None)

\* C4 as stated: the resolver succeeds if and only if exactly one of passwd
\* and pwhash is non-null, and in the failing case it fails with the
\* ambiguous-credential error without invoking the hashing utility.
C4_SucceedsIffExactlyOne ==
    IsPwhashCall =>
        /\ (call.result.status = "ok")
             <=> ExactlyOne(call.passwd, call.pwhash)
        /\ (call.result.status # "ok") =>
             /\ call.result.status = "ValueError"
             /\ call.result.invoked = <<>>

\* C4 as amended: the resolver fails with the ambiguous-credential error
\* if and only if both or neither of passwd and pwhash are non-null, and
\* then the hashing utility is not invoked; with exactly one non-null it
\* succeeds unless the hashing utility itself exits with a non-zero status.
C4_AmbiguousIffNotExactlyOne ==
    IsPwhashCall =>
        /\ (call.result.status = "ValueError")
             <=> ~ExactlyOne(call.passwd, call.pwhash)
        /\ (call.result.status = "ValueError") =>
             /\ call.result.invoked = <<>>
             /\ call.result.value = None
        /\ (call.result.status = "ok") =>
             ExactlyOne(call.passwd, call.pwhash)
        /\ (ExactlyOne(call.passwd, call.pwhash)
              /\ (call.passwd = None \/ call.run.exit = 0)) =>
             call.result.status = "ok"

\* C4 witness: both arguments given, the utility would have succeeded, and
\* the resolver failed with the ambiguous-credential error.
C4_Witness ==
    /\ IsPwhashCall
    /\ call.passwd # None
    /\ call.pwhash # None
    /\ call.run.exit = 0
    /\ call.result.status = "ValueError"

\* The text between the first and the last non-whitespace character.
FirstInk(s) == CHOOSE i \in 1..Len(s) :
                 s[i] \notin Whitespace /\ \A j \in 1..(i - 1) : s[j] \in Whitespace
LastInk(s) == CHOOSE i \in 1..Len(s) :
                s[i] \notin Whitespace
                /\ \A j \in (i + 1)..Len(s) : s[j] \in Whitespace
HasInk(s) == \E i \in 1..Len(s) : s[i] \notin Whitespace
TrimmedBothEnds(s) ==
    IF HasInk(s) THEN SubSeq(s, FirstInk(s), LastInk(s)) ELSE <<>>
TrimmedAtEnd(s) == IF HasInk(s) THEN SubSeq(s, 1, LastInk(s)) ELSE <<>>

HashGivenOnly == IsPwhashCall /\ call.passwd = None /\ call.pwhash # None
PlainGivenOnly == IsPwhashCall /\ call.passwd # None /\ call.pwhash = None

\* C5 as stated: with only pwhash the resolver returns it unchanged and
\* never invokes the utility; with only passwd the utility is invoked once
\* with that plaintext and the resolver returns its output with trailing
\* whitespace removed.
C5_TrailingTrimmed ==
    /\ HashGivenOnly =>
         /\ call.result.status = "ok"
         /\ call.result.value = call.pwhash
         /\ call.result.invoked = <<>>
    /\ PlainGivenOnly =>
         /\ call.result.invoked = <<call.passwd[1]>>
         /\ call.result.status = "ok"
         /\ call.result.value = Some(TrimmedAtEnd(call.run.stdout))

\* C5 as amended: with only pwhash the resolver returns it unchanged and
\* never invokes the utility; with only passwd the utility is invoked once
\* with that plaintext and, when it exits with status zero, the resolver
\* returns its output with the whitespace at both ends removed; when it
\* exits with another status the resolver fails with that failure.
C5_BothEndsTrimmed ==
    /\ HashGivenOnly =>
         /\ call.result.status = "ok"
         /\ call.result.value = call.pwhash
         /\ call.result.invoked = <<>>
    /\ PlainGivenOnly =>
         /\ call.result.invoked = <<call.passwd[1]>>
         /\ (call.run.exit = 0) =>
              /\ call.result.status = "ok"
              /\ call.result.value = Some(TrimmedBothEnds(call.run.stdout))
         /\ (call.run.exit # 0) =>
              /\ call.result.status = "CalledProcessError"
              /\ call.result.value = None

\* C5 witness: only passwd given, the utility wrote a hash followed by a
\* newline, and the resolver returned the hash without the newline.
C5_Witness ==
    /\ PlainGivenOnly
    /\ call.passwd = Some(<<"q">>)
    /\ call.run.exit = 0
    /\ call.run.stdout = <<"h", "h", "\n">>
    /\ call.result.value = Some(<<"h", "h">>)

\* C5 witness, second case: only pwhash given, with a trailing newline that
\* is handed on unchanged.
C5_WitnessHash ==
    /\ HashGivenOnly
    /\ call.pwhash = Some(<<"h", "\n">>)
    /\ call.result.value = Some(<<"h", "\n">>)
    /\ call.result.invoked = <<>>

(***************************************************************************)
(* Distinguished names.                                                    *)
(***************************************************************************)
MaxFields == 3
MaxDc == 2
MaxDomain == 4

KeyCn == <<"c", "n">>
KeyUid == <<"u", "i", "d">>
KeyOu == <<"o", "u">>
KeyDc == <<"d", "c">>

\* str.split(sep) for a one-character separator.
RECURSIVE split(_, _)
split(string, sep) ==
    IF \A i \in 1..Len(string) : string[i] # sep THEN <<string>>
    ELSE LET i == CHOOSE k \in 1..Len(string) :
                    string[k] = sep /\ \A j \in 1..(k - 1) : string[j] # sep
         IN  <<SubSeq(string, 1, i - 1)>>
               \o split(SubSeq(string, i + 1, Len(string)), sep)

\* sep.join(parts)
RECURSIVE join(_, _)
join(sep, parts) ==
    IF parts = <<>> THEN <<>>
    ELSE IF Len(parts) = 1 THEN parts[1]
    ELSE parts[1] \o sep \o join(sep, Tail(parts))

\* DistinguishedName(*domain_components, common_name=None, uid=None,
\*                   organizational_unit=None)
DistinguishedName(domain_components, common_name, uid, organizational_unit) ==
    [domain_components |-> domain_components, common_name |-> common_name,
     uid |-> uid, organizational_unit |-> organizational_unit]

\* DistinguishedName.__iter__: the (key, value) components in the order in
\* which they are serialised.
iter(dn) ==
    (IF dn.common_name # None
        THEN << <<KeyCn, dn.common_name[1]>> >> ELSE <<>>)
    \o (IF dn.uid # None THEN << <<KeyUid, dn.uid[1]>> >> ELSE <<>>)
    \o (IF dn.organizational_unit # None
           THEN << <<KeyOu, dn.organizational_unit[1]>> >> ELSE <<>>)
    \o [i \in 1..Len(dn.domain_components) |->
          <<KeyDc, dn.domain_components[i]>>]

\* '{}={}'.format(key, value)
format_component(component) == component[1] \o <<"=">> \o component[2]

\* DistinguishedName.__str__
str(dn) ==
    join(<<",">>, [i \in 1..Len(iter(dn)) |-> format_component(iter(dn)[i])])

Parsed(dn) == [status |-> "ok", dn |-> dn]

\* A singleton attribute that a later field silently overwrites.
set_always(dn, attribute, value) ==
    Parsed([dn EXCEPT ![attribute] = Some(value)])

\* if <attribute> is None: <attribute> = value; else: raise ValueError
set_once(dn, attribute, value) ==
    IF dn[attribute] = None
    THEN Parsed([dn EXCEPT ![attribute] = Some(value)])
    ELSE Raised("ValueError")

\* Domain components collected in reverse.
prepend_dc(dn, value) ==
    Parsed([dn EXCEPT !.domain_components = <<value>> \o @])

\* domain_components.append(value)
append_dc(dn, value) ==
    Parsed([dn EXCEPT !.domain_components = Append(@, value)])

\* The body of the loop of from_string for one field.
parse_field(dn, field) ==
    LET parts == split(field, "=")
    IN  IF Len(parts) # 2 THEN Raised("ValueError")
        ELSE IF parts[1] = KeyCn THEN set_once(dn, "common_name", parts[2])
        ELSE IF parts[1] = KeyUid THEN set_once(dn, "uid", parts[2])
        ELSE IF parts[1] = KeyOu
             THEN set_once(dn, "organizational_unit", parts[2])
        ELSE IF parts[1] = KeyDc THEN append_dc(dn, parts[2])
        ELSE Raised("ValueError")

\* for field in string.split(','): ...
RECURSIVE parse_fields(_, _)
parse_fields(fields, dn) ==
    IF fields = <<>> THEN Parsed(dn)
    ELSE LET step == parse_field(dn, Head(fields))
         IN  IF step.status # "ok" THEN step
             ELSE parse_fields(Tail(fields), step.dn)

\* DistinguishedName.from_string
from_string(string) ==
    parse_fields(split(string, ","), DistinguishedName(<<>>, None, None, None))

\* The dc components without the filter for empty segments.
domain_components_unfiltered(domain) == split(domain, ".")

\* The dc components of a dotted domain string: its non-empty segments.
domain_components(domain) ==
    SelectSeq(split(domain, "."), LAMBDA segment : segment # <<>>)

\* DistinguishedName.for_user(name, domain, ou=ou)
for_user(name, domain, ou) ==
    DistinguishedName(domain_components(domain), None, Some(name), Some(ou))

\* DistinguishedName.for_group(name, domain, ou=ou)
for_group(name, domain, ou) ==
    DistinguishedName(domain_components(domain), Some(name), None, Some(ou))

\* DistinguishedName.for_master(domain), with the administrator's name.
for_master(master, domain) ==
    DistinguishedName(domain_components(domain), Some(master), None, None)

(***************************************************************************)
(* Specification SpecDN: one call on a distinguished name.                 *)
(***************************************************************************)
TextA == <<"a">>
TextB == <<"b">>
TextX == <<"x">>

Field(key, value) == key \o <<"=">> \o value

\* The fields a string is put together from: well-formed fields with the
\* four recognised keys and an unrecognised one, and fields with no '=',
\* two '=', an empty key, an empty value, and the empty field.
FieldOptions ==
    {Field(key, value) : key \in {KeyCn, KeyUid, KeyOu, KeyDc, TextX},
                         value \in {TextA, TextB}}
    \cup {Field(KeyCn, <<>>), Field(KeyDc, <<>>), Field(<<>>, TextA),
          Field(KeyCn, Field(TextA, TextB)), TextA, <<>>}

FieldLists == UNION {[1..n -> FieldOptions] : n \in 1..MaxFields}

Values == {<<>>, TextA, TextB}

DcLists == UNION {[1..n -> Values] : n \in 0..MaxDc}

Domains == Strings({"a", "b", "."}, MaxDomain)

InitDN ==
    /\ passwd = {}
    /\ group = {}
    /\ InitPure

CallFromString ==
    /\ call = NoCall
    /\ \E fields \in FieldLists :
         LET string == join(<<",">>, fields)
             result == from_string(string)
         IN  call' = [op |-> "from_string", fields |-> fields,
                      string |-> string, result |-> result,
                      components |-> IF result.status = "ok"
                                     THEN iter(result.dn) ELSE <<>>]
    /\ UNCHANGED <<passwd, group>>
    /\ UNCHANGED PureVars

\* str(DistinguishedName.from_string(str(dn))) for a name built from
\* explicit components.
CallRoundTrip ==
    /\ call = NoCall
    /\ \E dcs \in DcLists, common_name \in Optional(Values),
          uid \in Optional(Values), ou \in Optional(Values) :
         LET dn == DistinguishedName(dcs, common_name, uid, ou)
             parsed == from_string(str(dn))
         IN  call' = [op |-> "roundtrip", dn |-> dn,
                      components |-> iter(dn), text |-> str(dn),
                      result |-> parsed,
                      components2 |-> IF parsed.status = "ok"
                                      THEN iter(parsed.dn) ELSE <<>>,
                      text2 |-> IF parsed.status = "ok"
                                THEN str(parsed.dn) ELSE <<>>]
    /\ UNCHANGED <<passwd, group>>
    /\ UNCHANGED PureVars

CallForUser ==
    /\ call = NoCall
    /\ \E domain \in Domains :
         call' = [op |-> "for_user", domain |-> domain,
                  components |-> iter(for_user(TextX, domain, TextA))]
    /\ UNCHANGED <<passwd, group>>
    /\ UNCHANGED PureVars

CallForGroup ==
    /\ call = NoCall
    /\ \E domain \in Domains :
         call' = [op |-> "for_group", domain |-> domain,
                  components |-> iter(for_group(TextX, domain, TextA))]
    /\ UNCHANGED <<passwd, group>>
    /\ UNCHANGED PureVars

CallForMaster ==
    /\ call = NoCall
    /\ \E domain \in Domains :
         call' = [op |-> "for_master", domain |-> domain,
                  components |-> iter(for_master(TextX, domain))]
    /\ UNCHANGED <<passwd, group>>
    /\ UNCHANGED PureVars

NextDN ==
    \/ CallFromString
    \/ CallRoundTrip
    \/ CallForUser
    \/ CallForGroup
    \/ CallForMaster
    \/ ReturnCall

SpecDN == InitDN /\ [][NextDN]_vars

IsFromString == call.op = "from_string"

CountOf(string, char) ==
    Cardinality({i \in 1..Len(string) : string[i] = char})

\* The text of a field before its '=' (for a field with exactly one '=').
KeyOf(field) ==
    SubSeq(field, 1, (CHOOSE i \in 1..Len(field) : field[i] = "=") - 1)

ValueOf(field) ==
    SubSeq(field, (CHOOSE i \in 1..Len(field) : field[i] = "=") + 1,
           Len(field))

WellFormedField(field) ==
    /\ CountOf(field, "=") = 1
    /\ KeyOf(field) \in {KeyCn, KeyUid, KeyOu, KeyDc}

Occurrences(fields, key) ==
    Cardinality({i \in 1..Len(fields) :
                   CountOf(fields[i], "=") = 1 /\ KeyOf(fields[i]) = key})

Malformed(fields) ==
    \/ \E i \in 1..Len(fields) : ~WellFormedField(fields[i])
    \/ \E key \in {KeyCn, KeyUid, KeyOu} : Occurrences(fields, key) > 1

\* C6: from_string fails with the malformed-name error, returning no name,
\* for every string in which some comma-separated field has not exactly one
\* '=', or a key other than cn, uid, ou, dc, or in which cn, uid or ou
\* occurs more than once; every other string is accepted.
C6_RejectsMalformed ==
    IsFromString =>
        /\ Malformed(call.fields) =>
             /\ call.result.status = "ValueError"
             /\ "dn" \notin DOMAIN call.result
        /\ ~Malformed(call.fields) => call.result.status = "ok"

\* C6 witness: every field is well formed, dc occurs in between, and the
\* string is rejected because ou occurs a second time.
C6_Witness ==
    /\ IsFromString
    /\ \A i \in 1..Len(call.fields) : WellFormedField(call.fields[i])
    /\ Occurrences(call.fields, KeyOu) = 2
    /\ Occurrences(call.fields, KeyDc) = 1
    /\ KeyOf(call.fields[2]) = KeyDc
    /\ call.result.status = "ValueError"

\* C6 witness, second case: a name with one cn and two dc is accepted.
C6_WitnessAccepted ==
    /\ IsFromString
    /\ Occurrences(call.fields, KeyDc) = 2
    /\ Occurrences(call.fields, KeyCn) = 1
    /\ call.result.status = "ok"

IsRoundTrip == call.op = "roundtrip"

\* C7: for every name with at least one component, built from components
\* in canonical order (cn, uid, ou, then the dc) with values free of ','
\* and '=', parsing its string form succeeds, and serialising the parsed
\* name gives the same text and the same sequence of components.
C7_RoundTrip ==
    (IsRoundTrip /\ call.components # <<>>) =>
        /\ call.result.status = "ok"
        /\ call.text2 = call.text
        /\ call.components2 = call.components

\* C7 witness: a name with uid, ou and two different dc made the round trip.
C7_Witness ==
    /\ IsRoundTrip
    /\ call.components = << <<KeyUid, TextB>>, <<KeyOu, TextA>>,
                            <<KeyDc, TextA>>, <<KeyDc, TextB>> >>
    /\ call.text = <<"u", "i", "d", "=", "b", ",", "o", "u", "=", "a", ",",
                     "d", "c", "=", "a", ",", "d", "c", "=", "b">>
    /\ call.text2 = call.text

\* C8 as stated: the components a name serialises are the components it
\* was constructed from, in the same order; for a name parsed from an
\* accepted string these are the fields of the string in their order.
C8_OrderAsConstructed ==
    (IsFromString /\ call.result.status = "ok") =>
        call.components =
            [i \in 1..Len(call.fields) |->
               <<KeyOf(call.fields[i]), ValueOf(call.fields[i])>>]

IsFactory == call.op \in {"for_user", "for_group", "for_master"}

RECURSIVE Concat(_)
Concat(texts) ==
    IF texts = <<>> THEN <<>> ELSE Head(texts) \o Concat(Tail(texts))

\* The values of the dc components, in order.
DcValues(components) ==
    LET dcs == SelectSeq(components, LAMBDA c : c[1] = KeyDc)
    IN  [i \in 1..Len(dcs) |-> dcs[i][2]]

\* The number of places where a non-empty segment of a domain starts.
SegmentStarts(domain) ==
    Cardinality({i \in 1..Len(domain) :
                   domain[i] # "." /\ (i = 1 \/ domain[i - 1] = ".")})

\* The components in front of the dc components.
Leading(components) ==
    SelectSeq(components, LAMBDA c : c[1] # KeyDc)

\* C9: for every dotted domain string, the factories for user, group and
\* administrative bind derive one dc component per non-empty segment, in
\* the order of the input, and no dc component with an empty value; the dc
\* components follow the other components.
C9_DomainComponents ==
    IsFactory =>
        LET dcs == DcValues(call.components)
        IN  /\ \A i \in 1..Len(dcs) :
                 dcs[i] # <<>> /\ CountOf(dcs[i], ".") = 0
            /\ Len(dcs) = SegmentStarts(call.domain)
            /\ Concat(dcs) = SelectSeq(call.domain, LAMBDA ch : ch # ".")
            /\ call.components = Leading(call.components)
                 \o [i \in 1..Len(dcs) |-> <<KeyDc, dcs[i]>>]
            /\ Leading(call.components) =
                 IF call.op = "for_user"
                 THEN << <<KeyUid, TextX>>, <<KeyOu, TextA>> >>
                 ELSE IF call.op = "for_group"
                 THEN << <<KeyCn, TextX>>, <<KeyOu, TextA>> >>
                 ELSE << <<KeyCn, TextX>> >>

\* C9 witness: the domain "a..b" gave the two components dc=a, dc=b.
C9_Witness ==
    /\ call.op = "for_user"
    /\ call.domain = <<"a", ".", ".", "b">>
    /\ DcValues(call.components) = <<TextA, TextB>>

(***************************************************************************)
(* Specification Spec: concurrent invocations of `ldapuser add`, each of   *)
(* which builds a create-user document and hands it to the sink.           *)
(***************************************************************************)
Procs == 1..NumProcs

\* The configured pool of user and group identifiers.
ConfigPool == range(ID_MIN, ID_MIN + MaxPool)

CallVars == <<call, ldif, cli, tmp, sink>>

Init ==
    /\ passwd \in SUBSET Members(ConfigPool)
    /\ group \in SUBSET Members(ConfigPool)
    /\ InitPure

\* main: the parsed command line, with or without --uid and --gid.
Invoke(p) ==
    /\ pc[p] = "idle"
    /\ \E uid \in Optional({ID_MIN + 1}), gid \in Optional({ID_MIN + 1}) :
         args' = [args EXCEPT ![p] = [uid |-> uid, gid |-> gid]]
    /\ pc' = [pc EXCEPT ![p] = "start"]
    /\ UNCHANGED <<passwd, group, directory, doc, dbAtRead>>
    /\ UNCHANGED CallVars

\* create, up to the uidNumber entry: the password is hashed, then the uid
\* is taken from the arguments or allocated from a snapshot.
CreateUid(p) ==
    /\ pc[p] = "start"
    /\ \E exit \in {0, 1} :
         IF exit # 0
         THEN /\ pc' = [pc EXCEPT ![p] = "failed"]
              /\ UNCHANGED <<doc, dbAtRead>>
         ELSE IF args[p].uid # None
         THEN /\ doc' = [doc EXCEPT ![p].uidNumber = args[p].uid]
              /\ pc' = [pc EXCEPT ![p] = "uid"]
              /\ UNCHANGED dbAtRead
         ELSE LET result == get_uid(ConfigPool)
              IN  /\ dbAtRead' = [dbAtRead EXCEPT ![p].uid = UidDatabase]
                  /\ IF result.status = "ok"
                     THEN /\ doc' = [doc EXCEPT
                                       ![p].uidNumber = Some(result.value)]
                          /\ pc' = [pc EXCEPT ![p] = "uid"]
                     ELSE /\ pc' = [pc EXCEPT ![p] = "failed"]
                          /\ UNCHANGED doc
    /\ UNCHANGED <<passwd, group, directory, args>>
    /\ UNCHANGED CallVars

\* create, from the gidNumber entry to the end of the document.
CreateGid(p) ==
    /\ pc[p] = "uid"
    /\ IF args[p].gid # None
       THEN /\ doc' = [doc EXCEPT ![p].gidNumber = args[p].gid]
            /\ pc' = [pc EXCEPT ![p] = "built"]
            /\ UNCHANGED dbAtRead
       ELSE LET result == get_gid(ConfigPool)
            IN  /\ dbAtRead' = [dbAtRead EXCEPT ![p].gid = GidDatabase]
                /\ IF result.status = "ok"
                   THEN /\ doc' = [doc EXCEPT
                                     ![p].gidNumber = Some(result.value)]
                        /\ pc' = [pc EXCEPT ![p] = "built"]
                   ELSE /\ pc' = [pc EXCEPT ![p] = "failed"]
                        /\ UNCHANGED doc
    /\ UNCHANGED <<passwd, group, directory, args>>
    /\ UNCHANGED CallVars

\* ldapadd(master, ldif): the sink commits the document, or exits with a
\* non-zero status and commits nothing.
LdapAdd(p) ==
    /\ pc[p] = "built"
    /\ \E exit \in {0, 1} :
         IF exit = 0
         THEN /\ directory' = Append(directory,
                                     [uidNumber |-> doc[p].uidNumber[1],
                                      gidNumber |-> doc[p].gidNumber[1]])
              /\ pc' = [pc EXCEPT ![p] = "done"]
         ELSE /\ pc' = [pc EXCEPT ![p] = "failed"]
              /\ UNCHANGED directory
    /\ UNCHANGED <<passwd, group, args, doc, dbAtRead>>
    /\ UNCHANGED CallVars

Next ==
    \E p \in Procs :
        \/ Invoke(p)
        \/ CreateUid(p)
        \/ CreateGid(p)
        \/ LdapAdd(p)

Spec == Init /\ [][Next]_vars

AllocatedUid(p) == args[p].uid = None /\ doc[p].uidNumber # None
AllocatedGid(p) == args[p].gid = None /\ doc[p].gidNumber # None

\* C3: allocation reserves nothing: whenever two invocations have each
\* allocated an identifier from the same pool and read the same content of
\* the account database (neither document, nor any other, was committed in
\* between), they hold the same uidNumber, respectively gidNumber.
C3_CheckThenUse ==
    \A p \in Procs, q \in Procs :
        /\ (AllocatedUid(p) /\ AllocatedUid(q)
              /\ dbAtRead[p].uid = dbAtRead[q].uid)
             => doc[p].uidNumber = doc[q].uidNumber
        /\ (AllocatedGid(p) /\ AllocatedGid(q)
              /\ dbAtRead[p].gid = dbAtRead[q].gid)
             => doc[p].gidNumber = doc[q].gidNumber

\* C3 witness: two invocations have both built their documents, nothing
\* has been handed to the sink, and the documents carry the same allocated
\* uidNumber and the same allocated gidNumber.
C3_Witness ==
    \E p \in Procs, q \in Procs :
        /\ p # q
        /\ pc[p] = "built" /\ pc[q] = "built"
        /\ directory = <<>>
        /\ AllocatedUid(p) /\ AllocatedUid(q)
        /\ AllocatedGid(p) /\ AllocatedGid(q)
        /\ doc[p].uidNumber = doc[q].uidNumber
        /\ doc[p].gidNumber = doc[q].gidNumber

\* C3 witness, second case: the sink has committed two documents with the
\* same uidNumber.
C3_WitnessCommitted ==
    /\ Len(directory) >= 2
    /\ directory[1].uidNumber = directory[2].uidNumber
    /\ \A p \in Procs : pc[p] = "done" => AllocatedUid(p)

(***************************************************************************)
(* LDIF documents.  The document is a dict: a sequence of items with       *)
(* distinct keys in insertion order.  A value is a string or a list of     *)
(* strings.                                                                *)
(***************************************************************************)
KeyDn == <<"d", "n">>
KeyObjectClass == <<"o", "b", "j", "e", "c", "t", "C", "l", "a", "s", "s">>
KeyGidNumber == <<"g", "i", "d", "N", "u", "m", "b", "e", "r">>
ClassTop == <<"t", "o", "p">>
ClassPerson == <<"p", "e", "r", "s", "o", "n">>
ClassPosixGroup == <<"p", "o", "s", "i", "x", "G", "r", "o", "u", "p">>

linesep == <<"\n">>

Scalar(text) == [list |-> FALSE, items |-> <<text>>]
List(texts) == [list |-> TRUE, items |-> texts]

Item(key, value) == [key |-> key, value |-> value]

Keys(d) == {d[i].key : i \in 1..Len(d)}

\* del self[key], with KeyError suppressed
delitem(d, key) == SelectSeq(d, LAMBDA item : item.key # key)

\* dict.__setitem__: a present key keeps its place, a new key goes last.
dict_setitem(d, key, value) ==
    IF key \in Keys(d)
    THEN [i \in 1..Len(d) |->
            IF d[i].key = key THEN Item(key, value) ELSE d[i]]
    ELSE Append(d, Item(key, value))

\* An assignment that clears the value of the attribute where None is
\* assigned, and keeps the attribute.
setitem_clearing(d, key, value) ==
    IF value = None THEN dict_setitem(d, key, Scalar(<<>>))
    ELSE dict_setitem(d, key, value[1])

\* LDIF.__setitem__; value is None or a string or a list.
setitem(d, key, value) ==
    IF value = None THEN delitem(d, key)
    ELSE dict_setitem(d, key, value[1])

\* An entries view that yields a list as one value, as its items joined.
RECURSIVE entries_unflattened(_)
entries_unflattened(d) ==
    IF d = <<>> THEN <<>>
    ELSE << <<Head(d).key, join(<<",", " ">>, Head(d).value.items)>> >>
           \o entries_unflattened(Tail(d))

\* LDIF.entries: one (key, item) per item of a list, one (key, value) for
\* any other value.
RECURSIVE entries(_)
entries(d) ==
    IF d = <<>> THEN <<>>
    ELSE [i \in 1..Len(Head(d).value.items) |->
            <<Head(d).key, Head(d).value.items[i]>>]
           \o entries(Tail(d))

\* '{}: {}'.format(option, value)
format_line(entry) == entry[1] \o <<":", " ">> \o entry[2]

\* LDIF.lines
lines(d) == [i \in 1..Len(entries(d)) |-> format_line(entries(d)[i])]

\* LDIF.__str__
str_ldif(d) == join(linesep, lines(d))

\* str(n) for a natural number.
Digit(n) == <<"0", "1", "2", "3", "4", "5", "6", "7", "8", "9">>[n + 1]

RECURSIVE decimal(_)
decimal(n) ==
    IF n < 10 THEN <<Digit(n)>> ELSE decimal(n \div 10) \o <<Digit(n % 10)>>

\* LDIFUser.__init__: the setters of distinguished_name (dn and uid) and
\* of object_classes store into the dict.
LDIFUser(uid, organizational_unit, dcs) ==
    LET dn == DistinguishedName(dcs, None, Some(uid), organizational_unit)
        d1 == setitem(<<>>, KeyDn, Some(Scalar(str(dn))))
        d2 == setitem(d1, KeyUid,
                      IF dn.uid = None THEN None
                      ELSE Some(Scalar(dn.uid[1])))
    IN  setitem(d2, KeyObjectClass,
                Some(List(<<ClassTop, ClassPerson,
                            <<"o", "r", "g", "a", "n", "i", "z", "a", "t",
                              "i", "o", "n", "a", "l", "P", "e", "r", "s",
                              "o", "n">>,
                            <<"i", "n", "e", "t", "O", "r", "g", "P", "e",
                              "r", "s", "o", "n">>,
                            <<"p", "o", "s", "i", "x", "A", "c", "c", "o",
                              "u", "n", "t">>,
                            <<"s", "h", "a", "d", "o", "w", "A", "c", "c",
                              "o", "u", "n", "t">> >>)))

\* LDIFGroup.__init__: the class has a setter for gid only, so the
\* distinguished name and the object classes become attributes of the
\* object and are not stored into the dict.
LDIFGroup(common_name, organizational_unit, dcs, gid) ==
    setitem(<<>>, KeyGidNumber,
            IF gid = None THEN None ELSE Some(Scalar(decimal(gid[1]))))

(***************************************************************************)
(* Specification SpecLDIF: documents and assignments to their attributes.  *)
(***************************************************************************)
AttributeKeys == {KeyDn, KeyObjectClass, KeyCn}

AttributeValues ==
    {Scalar(TextA), Scalar(<<>>), List(<<ClassTop, ClassPosixGroup>>),
     List(<<TextB>>), List(<<>>)}

InitLDIF ==
    /\ passwd = {}
    /\ group = {}
    /\ InitPure

LDIFVars ==
    <<passwd, group, directory, pc, args, doc, dbAtRead, cli, tmp, sink>>

SetItem ==
    /\ \E key \in AttributeKeys, value \in Optional(AttributeValues) :
         /\ ldif' = setitem(ldif, key, value)
         /\ call' = [op |-> "setitem", key |-> key, value |-> value]
    /\ UNCHANGED LDIFVars

NewLDIFUser ==
    /\ \E uid \in {TextA, TextB} :
         /\ ldif' = LDIFUser(uid, Some(TextX), <<TextA, TextB>>)
         /\ call' = [op |-> "LDIFUser", uid |-> uid]
    /\ UNCHANGED LDIFVars

NewLDIFGroup ==
    /\ \E gid \in Optional({ID_MIN}) :
         /\ ldif' = LDIFGroup(TextA, TextX, <<TextA, TextB>>, gid)
         /\ call' = [op |-> "LDIFGroup", gid |-> gid]
    /\ UNCHANGED LDIFVars

NextLDIF == SetItem \/ NewLDIFUser \/ NewLDIFGroup

SpecLDIF == InitLDIF /\ [][NextLDIF]_vars

\* The number of lines an item gives, and the number of lines in front of
\* the lines of the k-th item.
LineCount(item) == IF item.value.list THEN Len(item.value.items) ELSE 1

RECURSIVE LinesBefore(_, _)
LinesBefore(d, k) ==
    IF k <= 1 THEN 0 ELSE LinesBefore(d, k - 1) + LineCount(d[k - 1])

Position(d, key) == CHOOSE i \in 1..Len(d) : d[i].key = key

\* The text is the lines joined by the separator; every item has its
\* `name: value` lines, one per value, in the order of the values, after
\* the lines of the items in front of it.
LinesLaidOut(d) ==
    /\ Len(lines(d)) = LinesBefore(d, Len(d) + 1)
    /\ \A k \in 1..Len(d) : \A m \in 1..LineCount(d[k]) :
         lines(d)[LinesBefore(d, k) + m] =
             d[k].key \o <<":", " ">> \o d[k].value.items[m]
    /\ IF lines(d) = <<>> THEN str_ldif(d) = <<>>
       ELSE split(str_ldif(d), "\n") = lines(d)
    /\ \A k \in 1..Len(d) :
         (d[k].key = KeyObjectClass
            /\ d[k].value = List(<<ClassTop, ClassPosixGroup>>)) =>
           /\ lines(d)[LinesBefore(d, k) + 1] =
                KeyObjectClass \o <<":", " ", "t", "o", "p">>
           /\ lines(d)[LinesBefore(d, k) + 2] =
                KeyObjectClass \o <<":", " ">> \o ClassPosixGroup

\* An assignment leaves the attributes that stay in their relative order
\* and puts an attribute that was not there behind all others.
OrderKept(before, after) ==
    /\ \A i \in 1..Len(after), j \in 1..Len(after) :
         (i # j) => after[i].key # after[j].key
    /\ \A k1 \in Keys(before) \cap Keys(after),
          k2 \in Keys(before) \cap Keys(after) :
         (Position(before, k1) < Position(before, k2))
            => (Position(after, k1) < Position(after, k2))
    /\ \A k \in Keys(after) \ Keys(before) : Position(after, k) = Len(after)

\* C10: a document serialises to one `name: value` line per entry, joined
\* by the line separator; an attribute with several values gives one line
\* per value in the order of the values; the lines keep the order in which
\* the attributes were added; objectClass values ["top", "posixGroup"] give
\* the lines `objectClass: top` then `objectClass: posixGroup`.
C10_LinesInOrder ==
    [][/\ LinesLaidOut(ldif')
       /\ (call'.op = "setitem") => OrderKept(ldif, ldif')]_vars

\* C10 witness: a document to which dn, then objectClass with the values
\* top and posixGroup, then cn were added, and whose text is these four
\* lines in this order.
C10_Witness ==
    /\ Len(ldif) = 3
    /\ ldif[1].key = KeyDn
    /\ ldif[2] = Item(KeyObjectClass, List(<<ClassTop, ClassPosixGroup>>))
    /\ ldif[3] = Item(KeyCn, Scalar(TextA))
    /\ str_ldif(ldif) =
         KeyDn \o <<":", " ">> \o ldif[1].value.items[1] \o linesep
         \o KeyObjectClass \o <<":", " ">> \o ClassTop \o linesep
         \o KeyObjectClass \o <<":", " ">> \o ClassPosixGroup \o linesep
         \o KeyCn \o <<":", " ", "a">>

(***************************************************************************)
(* Attributes without a value.                                             *)
(***************************************************************************)
\* The line is a line of the attribute: it starts with `<key>: `.
LineFor(line, key) ==
    /\ Len(line) >= Len(key) + 2
    /\ SubSeq(line, 1, Len(key) + 2) = key \o <<":", " ">>

LinesOf(d, key) == SelectSeq(lines(d), LAMBDA line : LineFor(line, key))

\* C11: after any sequence of assignments the text has no line for an
\* attribute whose current value is None: assigning None removes the lines
\* of the attribute and is a no-op, not an error, where the attribute was
\* never set; assigning the empty string gives the line `<key>: `; the
\* lines of the other attributes are left alone, and every line of the text
\* is the line of an attribute that has a value.
C11_NoLineForNone ==
    [][/\ \A i \in 1..Len(lines(ldif')) :
            \E key \in Keys(ldif') : LineFor(lines(ldif')[i], key)
       /\ (call'.op = "setitem") =>
            /\ (call'.value = None) =>
                 /\ call'.key \notin Keys(ldif')
                 /\ LinesOf(ldif', call'.key) = <<>>
                 /\ (call'.key \notin Keys(ldif)) => (ldif' = ldif)
            /\ (call'.value = Some(Scalar(<<>>))) =>
                 LinesOf(ldif', call'.key) = <<call'.key \o <<":", " ">> >>
            /\ \A key \in AttributeKeys \ {call'.key} :
                 LinesOf(ldif', key) = LinesOf(ldif, key)]_vars

\* C11 witness: None was assigned to dn, which has no line, while cn holds
\* the empty string and has the line `cn: `.
C11_Witness ==
    /\ call = [op |-> "setitem", key |-> KeyDn, value |-> None]
    /\ LinesOf(ldif, KeyDn) = <<>>
    /\ KeyCn \in Keys(ldif)
    /\ LinesOf(ldif, KeyCn) = << <<"c", "n", ":", " ">> >>

(***************************************************************************)
(* Record builders: the entries they yield and what they read on the way.  *)
(***************************************************************************)
\* The largest number of members a group is built with.
MaxMembers == 2

ID_MAX == 65545

KeySn == <<"s", "n">>
KeyGivenName == <<"g", "i", "v", "e", "n", "N", "a", "m", "e">>
KeyUserPassword == <<"u", "s", "e", "r", "P", "a", "s", "s", "w", "o", "r",
        "d">>
KeyLoginShell == <<"l", "o", "g", "i", "n", "S", "h", "e", "l", "l">>
KeyUidNumber == <<"u", "i", "d", "N", "u", "m", "b", "e", "r">>
KeyHomeDirectory == <<"h", "o", "m", "e", "D", "i", "r", "e", "c", "t", "o",
        "r", "y">>
KeyChangetype == <<"c", "h", "a", "n", "g", "e", "t", "y", "p", "e">>
KeyReplace == <<"r", "e", "p", "l", "a", "c", "e">>
KeyAdd == <<"a", "d", "d">>
KeyDelete == <<"d", "e", "l", "e", "t", "e">>
KeyMemberUid == <<"m", "e", "m", "b", "e", "r", "U", "i", "d">>
KeyTitle == <<"t", "i", "t", "l", "e">>
KeyTelephoneNumber == <<"t", "e", "l", "e", "p", "h", "o", "n", "e", "N",
        "u", "m", "b", "e", "r">>
KeyMobile == <<"m", "o", "b", "i", "l", "e">>
TextModify == <<"m", "o", "d", "i", "f", "y">>

\* The values an entry holds: their Python type and the text str() gives.
PyStr(text) == [type |-> "str", text |-> text]
PyInt(n) == [type |-> "int", text |-> decimal(n)]
PyDn(dn) == [type |-> "DistinguishedName", text |-> str(dn)]
PyNone == [type |-> "NoneType", text |-> <<"N", "o", "n", "e">>]

OptStr(text) == IF text = None THEN None ELSE Some(PyStr(text[1]))
OptInt(n) == IF n = None THEN None ELSE Some(PyInt(n[1]))

\* bool(value): None, 0 and the empty string are false.
truthy(value) ==
    CASE value.type = "NoneType" -> FALSE
      [] value.type = "int" -> value.text # <<"0">>
      [] OTHER -> value.text # <<>>

\* LDIFEntry(name, value): a pair that serialises as `name: value`.
LDIFEntry(name, value) == [name |-> name, value |-> value]

entry_line(entry) == entry.name \o <<":", " ">> \o entry.value.text

\* CONFIG.getint(section, option, fallback=fallback)
getint(option, fallback) == IF option = None THEN fallback ELSE option[1]

\* The pool of get_uid: the configured range unless a pool is given.
uid_pool(pool, config) ==
    IF pool = None
    THEN range(getint(config.min_uid, ID_MIN), getint(config.max_uid, ID_MAX))
    ELSE pool[1]

\* The pool of get_gid.
gid_pool(pool, config) ==
    IF pool = None
    THEN range(getint(config.min_gid, ID_MIN), getint(config.max_gid, ID_MAX))
    ELSE pool[1]

\* classes(string): the set of the stripped, non-empty class names.
classes(string) ==
    IF string = None THEN {}
    ELSE {strip(split(string[1], ",")[i]) :
            i \in 1..Len(split(string[1], ","))} \ {<<>>}

\* The orders in which iterating over a set may yield its elements.
set_orders(S) ==
    {order \in [1..Cardinality(S) -> S] :
       \A x \in S : \E i \in 1..Cardinality(S) : order[i] = x}

Digits == {"0", "1", "2", "3", "4", "5", "6", "7", "8", "9"}

Prepend(prefix, result) ==
    IF result.status = "ok" THEN Returned(prefix \o result.value) ELSE result

\* template.format(argument): `{}` and `{0}` take the positional argument,
\* a field with a name looks the name up among the keyword arguments, of
\* which there are none; `{{` and `}}` are literal braces.
RECURSIVE format(_, _)
format(template, argument) ==
    IF template = <<>> THEN Returned(<<>>)
    ELSE IF Head(template) = "{"
    THEN IF Len(template) >= 2 /\ template[2] = "{"
         THEN Prepend(<<"{">>,
                      format(SubSeq(template, 3, Len(template)), argument))
         ELSE IF \A k \in 2..Len(template) : template[k] # "}"
         THEN Raised("ValueError")
         ELSE LET close == CHOOSE k \in 2..Len(template) :
                             /\ template[k] = "}"
                             /\ \A j \in 2..(k - 1) : template[j] # "}"
                  field == SubSeq(template, 2, close - 1)
                  rest == SubSeq(template, close + 1, Len(template))
              IN  IF field \in {<<>>, <<"0">>}
                  THEN Prepend(argument, format(rest, argument))
                  ELSE IF \A k \in 1..Len(field) : field[k] \in Digits
                  THEN Raised("IndexError")
                  ELSE Raised("KeyError")
    ELSE IF Head(template) = "}"
    THEN IF Len(template) >= 2 /\ template[2] = "}"
         THEN Prepend(<<"}">>,
                      format(SubSeq(template, 3, Len(template)), argument))
         ELSE Raised("ValueError")
    ELSE Prepend(<<Head(template)>>, format(Tail(template), argument))

IncompleteName == "Must specify both, first and last name or neither."
AmbiguousCredential == "Must specify either passwd or pwhash."

\* A common name that makes do with the one name that is given.
get_cn_lenient(first_name, last_name) ==
    IF first_name = None /\ last_name = None THEN Returned(None)
    ELSE Returned(Some(join(<<" ">>, first_name \o last_name)))

\* get_cn(first_name, last_name)
get_cn(first_name, last_name) ==
    IF first_name = None /\ last_name = None THEN Returned(None)
    ELSE IF first_name # None /\ last_name # None
    THEN Returned(Some(join(<<" ">>, <<first_name[1], last_name[1]>>)))
    ELSE [status |-> "ValueError", message |-> IncompleteName]

\* user.with_fallback(ou, domain)
user_with_fallback(ou, domain, config) ==
    [ou |-> IF ou = None THEN config.user_ou ELSE ou[1],
     domain |-> IF domain = None THEN config.domain ELSE domain[1]]

\* group.with_fallback(ou, domain)
group_with_fallback(ou, domain, config) ==
    [ou |-> IF ou = None THEN config.group_ou ELSE ou[1],
     domain |-> IF domain = None THEN config.domain ELSE domain[1]]

\* A generator: whether it is still running, the entries it has yielded,
\* and the reads of the system databases and the runs of the hashing
\* utility it has made.
Started ==
    [status |-> "ok", message |-> "", yielded |-> <<>>, trace |-> <<>>]

\* A generator that wraps the exception of a call in an error of its own.
After_wrapped(gen, status, message, external) ==
    IF gen.status # "ok" THEN gen
    ELSE [status |-> IF status = "ok" THEN "ok" ELSE "LDIFError",
          message |-> IF status = "ok" THEN "" ELSE message,
          yielded |-> gen.yielded, trace |-> gen.trace \o external]

\* The generator goes on after a call that returned, and ends with the
\* exception of a call that raised; a generator that has ended makes no
\* further call.
After(gen, status, message, external) ==
    IF gen.status # "ok" THEN gen
    ELSE [status |-> status,
          message |-> IF status = "ok" THEN "" ELSE message,
          yielded |-> gen.yielded, trace |-> gen.trace \o external]

Yield(gen, entries_) ==
    IF gen.status # "ok" THEN gen
    ELSE [gen EXCEPT !.yielded = @ \o entries_]

\* LDIF.constructor: the document is the list of all the entries of the
\* generator; an exception of the generator leaves no document.
constructor(gen) ==
    [status |-> gen.status, message |-> gen.message,
     document |-> IF gen.status = "ok" THEN Some(gen.yielded) ELSE None,
     trace |-> gen.trace]

SlappasswdRun(pw) == IF pw.invoked = <<>> THEN <<>> ELSE <<"slappasswd">>

\* Names yielded with the given name in front of the surname.
create_names_swapped(a) ==
    <<LDIFEntry(KeyUid, PyStr(a.name)),
      LDIFEntry(KeyCn,
                PyStr(join(<<" ">>, <<a.first_name, a.last_name>>))),
      LDIFEntry(KeyGivenName, PyStr(a.first_name)),
      LDIFEntry(KeySn, PyStr(a.last_name))>>

\* user.create: the entries uid, cn, sn and givenName.
create_names(a) ==
    <<LDIFEntry(KeyUid, PyStr(a.name)),
      LDIFEntry(KeyCn,
                PyStr(join(<<" ">>, <<a.first_name, a.last_name>>))),
      LDIFEntry(KeySn, PyStr(a.last_name)),
      LDIFEntry(KeyGivenName, PyStr(a.first_name))>>

\* user.create(name, first_name, last_name, passwd=, pwhash=, uid=, gid=,
\* home=, shell=, ou=, domain=) as a generator.  env holds what the
\* generator meets outside: the configuration, what the hashing utility
\* does, and the order in which the set of classes is iterated.
user_create_generator(a, env) ==
    LET fb == user_with_fallback(a.ou, a.domain, env.config)
        dn == for_user(a.name, fb.domain, fb.ou)
        g1 == Yield(Started,
                    <<LDIFEntry(KeyDn, PyDn(dn))>>
                    \o [i \in 1..Len(env.order) |->
                          LDIFEntry(KeyObjectClass, PyStr(env.order[i]))]
                    \o create_names(a))
        pw == get_pwhash(a.passwd, a.pwhash, env.run)
        shell == IF a.shell = None THEN env.config.shell ELSE a.shell[1]
        g2 == After(g1, pw.status, AmbiguousCredential, SlappasswdRun(pw))
        g3 == IF g2.status # "ok" THEN g2
              ELSE Yield(g2, <<LDIFEntry(KeyUserPassword,
                                         PyStr(pw.value[1])),
                               LDIFEntry(KeyLoginShell, PyStr(shell))>>)
        uid == IF a.uid = None THEN get_uid(uid_pool(None, env.config))
               ELSE Returned(a.uid[1])
        g4 == After(g3, uid.status, "UIDs exhausted.",
                    IF a.uid = None THEN <<"getpwall">> ELSE <<>>)
        g5 == IF g4.status # "ok" THEN g4
              ELSE Yield(g4, <<LDIFEntry(KeyUidNumber, PyInt(uid.value))>>)
        gid == IF a.gid = None THEN get_gid(gid_pool(None, env.config))
               ELSE Returned(a.gid[1])
        g6 == After(g5, gid.status, "GIDs exhausted.",
                    IF a.gid = None THEN <<"getgrall">> ELSE <<>>)
        g7 == IF g6.status # "ok" THEN g6
              ELSE Yield(g6, <<LDIFEntry(KeyGidNumber, PyInt(gid.value))>>)
        home == format(IF a.home = None THEN env.config.home ELSE a.home[1],
                       a.name)
        g8 == After(g7, home.status, "name", <<>>)
    IN  IF g8.status # "ok" THEN g8
        ELSE Yield(g8, <<LDIFEntry(KeyHomeDirectory, PyStr(home.value))>>)

user_create(a, env) == constructor(user_create_generator(a, env))

\* A pair that names no operation in front of the new value.
replace_pair_bare(attribute, value) ==
    IF value = None THEN <<>> ELSE <<LDIFEntry(attribute, value[1])>>

\* if value is not None: yield LDIFEntry('replace', attribute); yield
\* LDIFEntry(attribute, value)
replace_pair(attribute, value) ==
    IF value = None THEN <<>>
    ELSE <<LDIFEntry(KeyReplace, PyStr(attribute)),
           LDIFEntry(attribute, value[1])>>

\* A modify that resolves the password whether or not one is supplied.
user_modify_generator_resolving(a, env) ==
    LET fb == user_with_fallback(a.ou, a.domain, env.config)
        dn == for_user(a.name, fb.domain, fb.ou)
        g1 == Yield(Started,
                    <<LDIFEntry(KeyDn, PyDn(dn)),
                      LDIFEntry(KeyChangetype, PyStr(TextModify))>>
                    \o replace_pair(KeyUid, OptStr(a.new_name)))
        cn == get_cn(a.first_name, a.last_name)
        g2 == After(g1, cn.status, IncompleteName, <<>>)
        g3 == IF g2.status # "ok" THEN g2
              ELSE Yield(g2, replace_pair(KeyCn, OptStr(cn.value))
                             \o replace_pair(KeySn, OptStr(a.last_name))
                             \o replace_pair(KeyGivenName,
                                             OptStr(a.first_name)))
        pw == get_pwhash(a.passwd, a.pwhash, env.run)
        g4 == After(g3, pw.status, AmbiguousCredential, SlappasswdRun(pw))
    IN  IF g4.status # "ok" THEN g4
        ELSE Yield(g4, replace_pair(KeyUserPassword, OptStr(pw.value))
                       \o replace_pair(KeyLoginShell, OptStr(a.shell))
                       \o replace_pair(KeyUidNumber, OptInt(a.uid))
                       \o replace_pair(KeyGidNumber, OptInt(a.gid))
                       \o replace_pair(KeyHomeDirectory, OptStr(a.home)))

\* user.modify(name, new_name=, uid=, gid=, first_name=, last_name=,
\* passwd=, pwhash=, home=, shell=, ou=, domain=) as a generator.
user_modify_generator(a, env) ==
    LET fb == user_with_fallback(a.ou, a.domain, env.config)
        dn == for_user(a.name, fb.domain, fb.ou)
        g1 == Yield(Started,
                    <<LDIFEntry(KeyDn, PyDn(dn)),
                      LDIFEntry(KeyChangetype, PyStr(TextModify))>>
                    \o replace_pair(KeyUid, OptStr(a.new_name)))
        cn == get_cn(a.first_name, a.last_name)
        g2 == After(g1, cn.status, IncompleteName, <<>>)
        g3 == IF g2.status # "ok" THEN g2
              ELSE Yield(g2, replace_pair(KeyCn, OptStr(cn.value))
                             \o replace_pair(KeySn, OptStr(a.last_name))
                             \o replace_pair(KeyGivenName,
                                             OptStr(a.first_name)))
        pw == IF a.pwhash = None /\ a.passwd = None
              THEN PwResult("ok", None, <<>>)
              ELSE get_pwhash(a.passwd, a.pwhash, env.run)
        g4 == After(g3, pw.status, AmbiguousCredential, SlappasswdRun(pw))
    IN  IF g4.status # "ok" THEN g4
        ELSE Yield(g4, replace_pair(KeyUserPassword, OptStr(pw.value))
                       \o replace_pair(KeyLoginShell, OptStr(a.shell))
                       \o replace_pair(KeyUidNumber, OptInt(a.uid))
                       \o replace_pair(KeyGidNumber, OptInt(a.gid))
                       \o replace_pair(KeyHomeDirectory, OptStr(a.home)))

user_modify(a, env) == constructor(user_modify_generator(a, env))

\* group.create(name, gid, members, ou=, domain=) as a generator; the gid
\* is yielded as it was passed.
group_create_generator(a, env) ==
    LET fb == group_with_fallback(a.ou, a.domain, env.config)
        dn == for_group(a.name, fb.domain, fb.ou)
    IN  Yield(Started,
              <<LDIFEntry(KeyDn, PyDn(dn)),
                LDIFEntry(KeyCn, PyStr(a.name)),
                LDIFEntry(KeyGidNumber,
                          IF a.gid = None THEN PyNone ELSE PyInt(a.gid[1]))>>
              \o [i \in 1..Len(env.order) |->
                    LDIFEntry(KeyObjectClass, PyStr(env.order[i]))]
              \o [i \in 1..Len(a.members) |->
                    LDIFEntry(KeyMemberUid, PyStr(a.members[i]))])

group_create(a, env) == constructor(group_create_generator(a, env))

\* group.modify(name, new_name, gid, ou=, domain=) as a generator.
group_modify_generator(a, env) ==
    LET fb == group_with_fallback(a.ou, a.domain, env.config)
        dn == for_group(a.name, fb.domain, fb.ou)
    IN  Yield(Started,
              <<LDIFEntry(KeyDn, PyDn(dn)),
                LDIFEntry(KeyChangetype, PyStr(TextModify))>>
              \o replace_pair(KeyCn, OptStr(a.new_name))
              \o replace_pair(KeyGidNumber, OptInt(a.gid)))

group_modify(a, env) == constructor(group_modify_generator(a, env))

\* A change of the members with the member in front of the operation.
member_change_reversed(operation, member) ==
    <<LDIFEntry(KeyMemberUid, PyStr(member)),
      LDIFEntry(operation, PyStr(KeyMemberUid))>>

\* yield LDIFEntry(operation, 'memberUid'); yield LDIFEntry('memberUid',
\* member)
member_change(operation, member) ==
    <<LDIFEntry(operation, PyStr(KeyMemberUid)),
      LDIFEntry(KeyMemberUid, PyStr(member))>>

\* group.add(name, member, ou=, domain=) as a generator.
group_add_generator(a, env) ==
    LET fb == group_with_fallback(a.ou, a.domain, env.config)
        dn == for_group(a.name, fb.domain, fb.ou)
    IN  Yield(Started,
              <<LDIFEntry(KeyDn, PyDn(dn)),
                LDIFEntry(KeyChangetype, PyStr(TextModify))>>
              \o member_change(KeyAdd, a.member))

group_add(a, env) == constructor(group_add_generator(a, env))

\* group.remove(name, member, ou=, domain=) as a generator.
group_remove_generator(a, env) ==
    LET fb == group_with_fallback(a.ou, a.domain, env.config)
        dn == for_group(a.name, fb.domain, fb.ou)
    IN  Yield(Started,
              <<LDIFEntry(KeyDn, PyDn(dn)),
                LDIFEntry(KeyChangetype, PyStr(TextModify))>>
              \o member_change(KeyDelete, a.member))

group_remove(a, env) == constructor(group_remove_generator(a, env))

(***************************************************************************)
(* The older interface: ldaptools.py with ldapuseradd and LDAPAdmin, and   *)
(* the allocators of misc.py.                                              *)
(***************************************************************************)
OLD_ID_MIN == 1000
OLD_UID_MAX == 65544
OLD_GID_MAX == 65543

BASH == <<"/", "b", "i", "n", "/", "b", "a", "s", "h">>
HOME == <<"/", "h", "o", "m", "e", "/", "{", "}">>

\* ldaptools.py: get_uid(min_=1000, max_=65544)
ldaptools_get_uid(min_, max_) ==
    get_unique_identifier(range(min_, max_), getpwall)

\* ldaptools.py: get_gid(min_=1000, max_=65543)
ldaptools_get_gid(min_, max_) ==
    get_unique_identifier(range(min_, max_), getgrall)

\* misc.py: get_uid(min_=1000, max_=65544)
misc_get_uid(min_, max_) ==
    get_unique_identifier(range(min_, max_), getpwall)

\* misc.py: get_gid(min_=1000, max_=65544)
misc_get_gid(min_, max_) ==
    get_unique_identifier(range(min_, max_), getgrall)

\* ldaptools.py: check_output((SLAPPASSWD, '-s', passwd)).decode()
ldaptools_slappasswd(plain, run) ==
    IF run.exit # 0
    THEN PwResult("CalledProcessError", None, <<plain>>)
    ELSE PwResult("ok", Some(run.stdout), <<plain>>)

\* The entries of a dict-based document as a list of entries.
document_of(d) ==
    [i \in 1..Len(entries(d)) |->
       LDIFEntry(entries(d)[i][1], PyStr(entries(d)[i][2]))]

\* What is stored for a value: None takes the attribute out.
Stored(value) ==
    IF value = PyNone THEN None ELSE Some(Scalar(value.text))

Outcome(status, value, document, trace) ==
    [status |-> status, message |-> "", value |-> value,
     document |-> document, trace |-> trace]

\* ldaptools.py: the setter of LDIFUser.name, which unpacks the name into
\* its first and its last character.
set_name(d, name) ==
    IF Len(name) < 2 THEN Raised("InvalidName")
    ELSE Returned(
           setitem(setitem(setitem(d, KeyCn, Some(Scalar(name))),
                           KeySn, Some(Scalar(<<name[Len(name)]>>))),
                   KeyGivenName, Some(Scalar(<<name[1]>>))))

\* ldaptools.py: LDAPAdmin.useradd(login_name, passwd, uid, gid, shell,
\* home, name, title, phone, mobile), up to the exit status of ldapadd.
useradd(self, a, env) ==
    LET user == LDIFUser(a.login_name, self.organizational_unit,
                         self.domain_components)
        plain == IF a.passwd = PyNone THEN env.generated ELSE a.passwd.text
        pw == ldaptools_slappasswd(plain, env.run)
        uid == IF a.uid = PyNone
               THEN ldaptools_get_uid(OLD_ID_MIN, OLD_UID_MAX)
               ELSE Returned(0)
        gid == IF a.gid = PyNone
               THEN ldaptools_get_gid(OLD_ID_MIN, OLD_GID_MAX)
               ELSE Returned(0)
        t1 == <<"slappasswd">>
        t2 == t1 \o (IF a.uid = PyNone THEN <<"getpwall">> ELSE <<>>)
        t3 == t2 \o (IF a.gid = PyNone THEN <<"getgrall">> ELSE <<>>)
    IN  IF pw.status # "ok" THEN Outcome(pw.status, None, None, t1)
        ELSE IF uid.status # "ok" THEN Outcome(uid.status, None, None, t2)
        ELSE IF gid.status # "ok" THEN Outcome(gid.status, None, None, t3)
        ELSE
          LET d1 == setitem(user, KeyUserPassword,
                            Some(Scalar(pw.value[1])))
              d2 == setitem(d1, KeyUidNumber,
                            IF a.uid = PyNone
                            THEN Some(Scalar(decimal(uid.value)))
                            ELSE Stored(a.uid))
              d3 == setitem(d2, KeyGidNumber,
                            IF a.gid = PyNone
                            THEN Some(Scalar(decimal(gid.value)))
                            ELSE Stored(a.gid))
              d4 == setitem(d3, KeyLoginShell, Stored(a.shell))
              d5 == setitem(d4, KeyHomeDirectory,
                            IF a.home = PyNone
                            THEN Some(Scalar(format(HOME,
                                                    a.login_name).value))
                            ELSE Stored(a.home))
              named == IF a.name = PyNone THEN Returned(d5)
                       ELSE set_name(d5, a.name.text)
          IN  IF named.status # "ok"
              THEN Outcome(named.status, None, None, t3)
              ELSE
                LET d6 == named.value
                    d7 == IF a.title = PyNone THEN d6
                          ELSE setitem(d6, KeyTitle, Stored(a.title))
                    d8 == IF a.phone = PyNone THEN d7
                          ELSE setitem(d7, KeyTelephoneNumber,
                                       Stored(a.phone))
                    d9 == IF a.mobile = PyNone THEN d8
                          ELSE setitem(d8, KeyMobile, Stored(a.mobile))
                IN  Outcome(IF env.ldapadd_exit = 0 THEN "ok"
                            ELSE "CalledProcessError",
                            None, Some(document_of(d9)),
                            t3 \o <<"ldapadd">>)

\* ldaptools.py: ldapuseradd(options).  The handler of CalledProcessError
\* decodes the standard error of a process that was run without capturing
\* it, which is None.
ldapuseradd(options, env) ==
    LET plain == IF truthy(options.passwd) THEN options.passwd
                  ELSE PyStr(env.generated)
        uid == IF truthy(options.uid) THEN Returned(options.uid)
               ELSE LET r == ldaptools_get_uid(OLD_ID_MIN, OLD_UID_MAX)
                    IN  IF r.status = "ok" THEN Returned(PyInt(r.value))
                        ELSE r
        gid == IF truthy(options.gid) THEN Returned(options.gid)
               ELSE LET r == ldaptools_get_gid(OLD_ID_MIN, OLD_GID_MAX)
                    IN  IF r.status = "ok" THEN Returned(PyInt(r.value))
                        ELSE r
        t1 == IF truthy(options.uid) THEN <<>> ELSE <<"getpwall">>
        t2 == t1 \o (IF truthy(options.gid) THEN <<>> ELSE <<"getgrall">>)
        shell == IF truthy(options.shell) THEN options.shell
                 ELSE PyStr(BASH)
        admin == from_string(options.dn)
    IN  IF uid.status # "ok" THEN Outcome(uid.status, None, None, t1)
        ELSE IF gid.status # "ok" THEN Outcome(gid.status, None, None, t2)
        ELSE IF admin.status # "ok" THEN Outcome("ok", Some(2), None, t2)
        ELSE
          LET r == useradd(admin.dn,
                           [login_name |-> options.user, passwd |-> plain,
                            uid |-> uid.value, gid |-> gid.value,
                            shell |-> shell, home |-> options.home,
                            name |-> options.name, title |-> options.title,
                            phone |-> options.phone,
                            mobile |-> options.mobile],
                           env)
          IN  Outcome(IF r.status = "CalledProcessError"
                      THEN "AttributeError" ELSE r.status,
                      IF r.status = "ok" THEN Some(0) ELSE None,
                      r.document, t2 \o r.trace)

(***************************************************************************)
(* Specification SpecBuild: one call of a builder on any arguments,        *)
(* configuration and system databases.                                     *)
(***************************************************************************)
TextJdoe == <<"j", "d", "o", "e">>
TextJane == <<"J", "a", "n", "e">>
TextDoe == <<"D", "o", "e">>
TextGrp == <<"g", "r", "p">>
TextP == <<"p">>
TextH == <<"h">>
HOME_NAMED == <<"/", "h", "o", "m", "e", "/", "{", "n", "a", "m", "e", "}">>

Logins == {TextJdoe, TextA}
FirstNames == {TextJane, TextA}
Templates == {HOME, HOME_NAMED}

\* The classes options of a configuration file: not set, two classes, and
\* one class given twice with blanks and an empty name.
ClassOptions ==
    {[user |-> None, group |-> None],
     [user |-> Some(<<"t", "o", "p", ",", "p", "e", "r", "s", "o", "n">>),
             group |-> Some(<<"t", "o", "p", ",", "p", "o", "s", "i", "x",
             "G", "r", "o", "u", "p">>)],
     [user |-> Some(<<" ", "t", "o", "p", ",", " ", "t", "o", "p", ",">>),
             group |-> Some(<<"p", "o", "s", "i", "x", "G", "r", "o", "u",
             "p">>)]}

\* The identifier options: not set, or the range of ConfigPool.
RangeOptions ==
    {[min |-> None, max |-> None],
     [min |-> Some(ConfigPool.lo), max |-> Some(ConfigPool.hi)]}

\* The configuration file as the builders read it; the options read with
\* a fallback are None where the file does not set them.
BaseConfig ==
    [user_ou |-> <<"P", "e", "o", "p", "l", "e">>,
     group_ou |-> <<"G", "r", "o", "u", "p">>,
     domain |-> <<"e", "x", "a", "m", "p", "l", "e", ".", "c", "o", "m">>,
     shell |-> BASH, home |-> HOME, user_classes |-> None,
     group_classes |-> None, min_uid |-> None, max_uid |-> None,
     min_gid |-> None, max_gid |-> None]

BuildConfigs ==
    {[BaseConfig EXCEPT !.home = home, !.user_classes = c.user,
                        !.group_classes = c.group, !.min_uid = r.min,
                        !.max_uid = r.max, !.min_gid = r.min,
                        !.max_gid = r.max] :
       home \in Templates, c \in ClassOptions, r \in RangeOptions}

\* ou and domain: both left to the configuration, or both given.
Locations ==
    {[ou |-> None, domain |-> None],
     [ou |-> Some(TextX), domain |-> Some(<<"a", ".", "b">>)]}

BuildRuns ==
    {[exit |-> 0, stdout |-> <<"h", "\n">>], [exit |-> 1, stdout |-> <<>>]}

MemberLists == UNION {[1..n -> {TextA, TextB}] : n \in 0..MaxMembers}

InitBuild ==
    /\ passwd \in {{}, Members(ConfigPool)}
    /\ group \in {{ID_MIN}, Members(ConfigPool)}
    /\ InitPure

BuildVars ==
    <<passwd, group, directory, pc, args, doc, dbAtRead, ldif, cli, tmp,
      sink>>

CallUserCreate ==
    /\ call = NoCall
    /\ \E name \in Logins, first_name \in FirstNames,
          plain \in Optional({TextP}), pwhash \in Optional({TextH}),
          uid \in Optional({0, ID_MIN + 1}), gid \in Optional({0}),
          home \in Optional({HOME}), shell \in Optional({<<"/", "b", "i",
                  "n", "/", "s", "h">>}),
          at \in Locations, config \in BuildConfigs, run \in BuildRuns :
         \E order \in set_orders(classes(config.user_classes)) :
           LET a == [name |-> name, first_name |-> first_name,
                     last_name |-> TextDoe, passwd |-> plain,
                     pwhash |-> pwhash, uid |-> uid, gid |-> gid,
                     home |-> home, shell |-> shell, ou |-> at.ou,
                     domain |-> at.domain]
               env == [config |-> config, run |-> run, order |-> order]
           IN  call' = [op |-> "user.create", a |-> a, env |-> env,
                        result |-> user_create(a, env)]
    /\ UNCHANGED BuildVars

CallUserModify ==
    /\ call = NoCall
    /\ \E new_name \in Optional({TextA}), uid \in Optional({0}),
          gid \in Optional({ID_MIN}), first_name \in Optional({TextJane}),
          last_name \in Optional({TextDoe}), plain \in Optional({TextP}),
          pwhash \in Optional({TextH}), home \in Optional({<<"/", "h">>}),
          shell \in Optional({<<"/", "b", "i", "n", "/", "s", "h">>}),
                  at \in Locations,
          run \in BuildRuns :
         LET a == [name |-> TextJdoe, new_name |-> new_name, uid |-> uid,
                   gid |-> gid, first_name |-> first_name,
                   last_name |-> last_name, passwd |-> plain,
                   pwhash |-> pwhash, home |-> home, shell |-> shell,
                   ou |-> at.ou, domain |-> at.domain]
             env == [config |-> BaseConfig, run |-> run]
         IN  call' = [op |-> "user.modify", a |-> a, env |-> env,
                      result |-> user_modify(a, env)]
    /\ UNCHANGED BuildVars

CallGroupCreate ==
    /\ call = NoCall
    /\ \E gid \in Optional({0, ID_MIN}), members \in MemberLists,
          at \in Locations, config \in BuildConfigs :
         \E order \in set_orders(classes(config.group_classes)) :
           LET a == [name |-> TextGrp, gid |-> gid, members |-> members,
                     ou |-> at.ou, domain |-> at.domain]
               env == [config |-> config, order |-> order]
           IN  call' = [op |-> "group.create", a |-> a, env |-> env,
                        result |-> group_create(a, env)]
    /\ UNCHANGED BuildVars

CallGroupModify ==
    /\ call = NoCall
    /\ \E new_name \in Optional({TextA}), gid \in Optional({0, ID_MIN}),
          at \in Locations :
         LET a == [name |-> TextGrp, new_name |-> new_name, gid |-> gid,
                   ou |-> at.ou, domain |-> at.domain]
             env == [config |-> BaseConfig]
         IN  call' = [op |-> "group.modify", a |-> a, env |-> env,
                      result |-> group_modify(a, env)]
    /\ UNCHANGED BuildVars

CallGroupAdd ==
    /\ call = NoCall
    /\ \E member \in Logins, at \in Locations :
         LET a == [name |-> TextGrp, member |-> member, ou |-> at.ou,
                   domain |-> at.domain]
             env == [config |-> BaseConfig]
         IN  call' = [op |-> "group.add", a |-> a, env |-> env,
                      result |-> group_add(a, env)]
    /\ UNCHANGED BuildVars

CallGroupRemove ==
    /\ call = NoCall
    /\ \E member \in Logins, at \in Locations :
         LET a == [name |-> TextGrp, member |-> member, ou |-> at.ou,
                   domain |-> at.domain]
             env == [config |-> BaseConfig]
         IN  call' = [op |-> "group.remove", a |-> a, env |-> env,
                      result |-> group_remove(a, env)]
    /\ UNCHANGED BuildVars

\* LDIFUser(uid, organizational_unit, *domain_components) as a document.
CallLDIFUser ==
    /\ call = NoCall
    /\ \E uid \in Logins, ou \in Optional({TextX}) :
         call' = [op |-> "LDIFUser",
                  a |-> [uid |-> uid, organizational_unit |-> ou],
                  result |->
                    Outcome("ok", None,
                            Some(document_of(
                                   LDIFUser(uid, ou, <<TextA, TextB>>))),
                            <<>>)]
    /\ UNCHANGED BuildVars

\* LDIFGroup(common_name, organizational_unit, *domain_components, gid=)
\* as a document.
CallLDIFGroup ==
    /\ call = NoCall
    /\ \E common_name \in {TextGrp, TextA}, gid \in Optional({0, ID_MIN}) :
         call' = [op |-> "LDIFGroup",
                  a |-> [common_name |-> common_name, gid |-> gid],
                  result |->
                    Outcome("ok", None,
                            Some(document_of(
                                   LDIFGroup(common_name, TextX,
                                             <<TextA, TextB>>, gid))),
                            <<>>)]
    /\ UNCHANGED BuildVars

\* The values docopt gives an option: None, or the text of the argument;
\* a caller of ldapuseradd may also pass a number.
CallLdapuseradd ==
    /\ call = NoCall
    /\ \E dn \in {<<"c", "n", "=", "a", "d", "m", "i", "n", ",", "o", "u",
            "=", "x", ",", "d", "c", "=", "a">>, <<"c", "n", "=", "a", "d",
            "m", "i", "n", ",", "d", "c", "=", "a">>, <<"a", "d", "m", "i",
            "n">>},
          plain \in {PyNone, PyStr(TextP)},
          uid \in {PyNone, PyInt(0), PyStr(<<"0">>), PyStr(<<"2", "0", "0",
                  "1">>)},
          gid \in {PyNone, PyInt(0), PyStr(<<"0">>)},
          home \in {PyNone, PyStr(<<"/", "h">>)},
          name \in {PyNone, PyStr(<<"J", "a", "n", "e", " ", "D", "o",
                  "e">>), PyStr(<<"J">>)},
          title \in {PyNone, PyStr(<<"D", "r">>)},
          run \in BuildRuns, ldapadd_exit \in {0, 1} :
         LET options == [dn |-> dn, user |-> TextJdoe, passwd |-> plain,
                         uid |-> uid, gid |-> gid, shell |-> PyNone,
                         home |-> home, name |-> name, title |-> title,
                         phone |-> PyNone, mobile |-> PyNone]
             env == [run |-> run, generated |-> <<"g">>,
                     ldapadd_exit |-> ldapadd_exit]
         IN  call' = [op |-> "ldapuseradd", a |-> options, env |-> env,
                      result |-> ldapuseradd(options, env)]
    /\ UNCHANGED BuildVars

\* An argument at the call site: left out, or passed with a value.
Omitted == [passed |-> FALSE]
Passed(value) == [passed |-> TRUE, value |-> value]

\* The binding of a parameter: the value passed, or the default of the
\* signature.
bind(argument, default) ==
    IF argument.passed THEN argument.value ELSE default

\* The type str, which is not None and is no text of the inputs.
StrClass == <<"<class 'str'>">>

UserBuilders == {"user.create", "user.modify", "user.delete"}
GroupBuilders ==
    {"group.create", "group.modify", "group.add", "group.remove",
     "group.delete"}

\* The defaults of ou and domain in the signatures of the builders.
parameter_defaults(builder) ==
    IF builder = "group.create"
    THEN [ou |-> None, domain |-> Some(StrClass)]
    ELSE [ou |-> None, domain |-> None]

\* The first statement of every builder: ou, domain = with_fallback(ou,
\* domain), on the parameters as the call binds them.
resolve_location(builder, a, config) ==
    LET ou == bind(a.ou, parameter_defaults(builder).ou)
        domain == bind(a.domain, parameter_defaults(builder).domain)
    IN  IF builder \in UserBuilders
        THEN user_with_fallback(ou, domain, config)
        ELSE group_with_fallback(ou, domain, config)

\* The pool an allocator scans, on the arguments as the call binds them.
resolve_pool(allocator, a, config) ==
    CASE allocator = "functions.get_uid" ->
           uid_pool(bind(a.pool, None), config)
      [] allocator = "functions.get_gid" ->
           gid_pool(bind(a.pool, None), config)
      [] allocator = "ldaptools.get_gid" ->
           range(bind(a.min_, OLD_ID_MIN), bind(a.max_, OLD_GID_MAX))
      [] OTHER ->
           range(bind(a.min_, OLD_ID_MIN), bind(a.max_, OLD_UID_MAX))

Allocators ==
    {"functions.get_uid", "functions.get_gid", "misc.get_uid",
     "misc.get_gid", "ldaptools.get_uid", "ldaptools.get_gid"}

ForUids == {"functions.get_uid", "misc.get_uid", "ldaptools.get_uid"}

OtherConfig ==
    [BaseConfig EXCEPT !.user_ou = TextA, !.group_ou = TextB,
                       !.domain = <<"b", ".", "a">>]

CallWithFallback ==
    /\ call = NoCall
    /\ \E builder \in UserBuilders \cup GroupBuilders,
          ou \in {Omitted, Passed(None), Passed(Some(TextX))},
          domain \in {Omitted, Passed(None), Passed(Some(<<"a", ".", "b">>))},
          config \in {BaseConfig, OtherConfig} :
         call' = [op |-> "with_fallback", builder |-> builder,
                  a |-> [ou |-> ou, domain |-> domain],
                  env |-> [config |-> config],
                  result |->
                    resolve_location(builder, [ou |-> ou,
                                               domain |-> domain], config)]
    /\ UNCHANGED BuildVars

CallAllocator ==
    /\ call = NoCall
    /\ \E allocator \in Allocators,
          pool \in {Omitted, Passed(None),
                    Passed(Some(range(ID_MIN + 1, ID_MIN + 2)))},
          min_ \in {Omitted, Passed(ID_MIN)},
          max_ \in {Omitted, Passed(ID_MIN + MaxPool)},
          lowest \in Optional({ID_MIN + 1}),
          highest \in Optional({ID_MIN + MaxPool}) :
         LET a == IF allocator \in {"functions.get_uid",
                                    "functions.get_gid"}
                  THEN [pool |-> pool]
                  ELSE [min_ |-> min_, max_ |-> max_]
             config == [BaseConfig EXCEPT !.min_uid = lowest,
                                          !.max_uid = highest,
                                          !.min_gid = lowest,
                                          !.max_gid = highest]
             scanned == resolve_pool(allocator, a, config)
         IN  call' = [op |-> "allocator", allocator |-> allocator,
                      a |-> a, env |-> [config |-> config],
                      pool |-> scanned,
                      result |->
                        get_unique_identifier(
                          scanned,
                          IF allocator \in ForUids THEN getpwall
                          ELSE getgrall)]
    /\ UNCHANGED BuildVars

NextBuild ==
    \/ CallUserCreate
    \/ CallUserModify
    \/ CallGroupCreate
    \/ CallGroupModify
    \/ CallGroupAdd
    \/ CallGroupRemove
    \/ CallLDIFUser
    \/ CallLDIFGroup
    \/ CallLdapuseradd
    \/ CallWithFallback
    \/ CallAllocator
    \/ ReturnCall

SpecBuild == InitBuild /\ [][NextBuild]_vars

IsBuilt(op) ==
    /\ call.op = op
    /\ call.result.status = "ok"
    /\ call.result.document # None

Document == call.result.document[1]

(***************************************************************************)
(* Properties of the documents.                                            *)
(***************************************************************************)
CreateBuilders ==
    {"user.create", "group.create", "LDIFUser", "LDIFGroup", "ldapuseradd"}

ModifyBuilders == {"user.modify", "group.modify", "group.add", "group.remove"}

\* C12: in every document that a create, modify, add-member or
\* remove-member builder produces the first entry is the dn entry, and in
\* every modify, add-member and remove-member document the second entry is
\* `changetype: modify`.
C12_DnFirst ==
    (/\ call.op \in CreateBuilders \cup ModifyBuilders
     /\ call.result.status = "ok"
     /\ call.result.document # None) =>
      /\ Len(Document) >= 1
      /\ Document[1].name = KeyDn
      /\ (call.op \in ModifyBuilders) =>
           /\ Len(Document) >= 2
           /\ Document[2] = LDIFEntry(KeyChangetype, PyStr(TextModify))

\* The same for all builders but the constructor of LDIFGroup.
C12_DnFirstButLDIFGroup == (call.op # "LDIFGroup") => C12_DnFirst


NamesOf(document) == [i \in 1..Len(document) |-> document[i].name]

\* The number of objectClass entries of a create-user document.
ClassCount == Len(Document) - 10

\* C13: for all valid inputs the create-user document is exactly: dn, one
\* objectClass entry per configured user object class, then uid, cn (first
\* name, a blank, last name), sn, givenName, userPassword, loginShell,
\* uidNumber, gidNumber and homeDirectory, in this order.
C13_CreateUserSequence ==
    IsBuilt("user.create") =>
      /\ ClassCount >= 0
      /\ Document[1].name = KeyDn
      /\ \A i \in 2..(ClassCount + 1) : Document[i].name = KeyObjectClass
      /\ {Document[i].value.text : i \in 2..(ClassCount + 1)}
           = classes(call.env.config.user_classes)
      /\ ClassCount = Cardinality(classes(call.env.config.user_classes))
      /\ SubSeq(NamesOf(Document), ClassCount + 2, Len(Document))
           = <<KeyUid, KeyCn, KeySn, KeyGivenName, KeyUserPassword,
               KeyLoginShell, KeyUidNumber, KeyGidNumber, KeyHomeDirectory>>
      /\ Document[ClassCount + 2].value = PyStr(call.a.name)
      /\ Document[ClassCount + 3].value
           = PyStr(call.a.first_name \o <<" ">> \o call.a.last_name)
      /\ Document[ClassCount + 4].value = PyStr(call.a.last_name)
      /\ Document[ClassCount + 5].value = PyStr(call.a.first_name)

\* C13 witness: a create-user document for jdoe, Jane Doe, under a
\* configuration with the classes top and person: twelve entries, with
\* the line `cn: Jane Doe` in the fifth place.
C13_Witness ==
    /\ IsBuilt("user.create")
    /\ call.a.name = TextJdoe
    /\ classes(call.env.config.user_classes) = {ClassTop, ClassPerson}
    /\ Len(Document) = 12
    /\ Document[2].value.text = ClassPerson
    /\ entry_line(Document[5]) = <<"c", "n", ":", " ", "J", "a", "n", "e",
            " ", "D", "o", "e">>


\* The template the homeDirectory of a create-user call is made from.
HomeTemplate ==
    IF call.a.home = None THEN call.env.config.home ELSE call.a.home[1]

\* C14: the homeDirectory of a create-user document is the home template
\* with the login name put in: the templates `/home/{}` and `/home/{name}`
\* both give `/home/<login name>`, and the builder fails on neither.
C14_HomeFromTemplate ==
    (call.op = "user.create" /\ HomeTemplate \in Templates) =>
      /\ call.result.status # "KeyError"
      /\ (call.result.status = "ok") =>
           Document[Len(Document)]
             = LDIFEntry(KeyHomeDirectory,
                         PyStr(<<"/", "h", "o", "m", "e",
                                 "/">> \o call.a.name))

\* The same for the template `/home/{}` alone.
C14_HomeFromPositionalTemplate ==
    (call.op = "user.create" /\ HomeTemplate = HOME) => C14_HomeFromTemplate


Consulted(database) ==
    \E i \in 1..Len(call.result.trace) : call.result.trace[i] = database

EntryNamed(document, name) ==
    document[CHOOSE i \in 1..Len(document) : document[i].name = name]

\* The value is the lowest identifier of the pool that the snapshot does
\* not hold.
LowestFree(value, pool, used) ==
    \E v \in pool.lo..(pool.lo + Cardinality(used)) :
       /\ v < pool.hi
       /\ v \notin used
       /\ \A j \in pool.lo..(v - 1) : j \in used
       /\ value.text = decimal(v)

\* The identifier entry of a document: the supplied value unchanged and no
\* read of the database, or the lowest free identifier of the pool.
IdentifierAsSupplied(entry, supplied, text, database, pool, used) ==
    /\ supplied => ~Consulted(database)
    /\ (call.result.document # None) =>
         IF supplied
         THEN EntryNamed(Document, entry).value.text = text
         ELSE /\ Consulted(database)
              /\ LowestFree(EntryNamed(Document, entry).value, pool, used)

\* C15: in create-user, uidNumber and gidNumber are each allocated if and
\* only if not supplied: a supplied uid or gid, the value 0 included, is
\* emitted unchanged and the allocator is not consulted for it; an
\* unsupplied uid is the allocator's result over the UID snapshot and an
\* unsupplied gid the allocator's result over the GID snapshot, each
\* independently of the other.
C15_AllocatedIffNotSupplied ==
    /\ (call.op = "user.create") =>
         /\ IdentifierAsSupplied(
              KeyUidNumber, call.a.uid # None,
              IF call.a.uid = None THEN <<>> ELSE decimal(call.a.uid[1]),
              "getpwall", uid_pool(None, call.env.config), passwd)
         /\ IdentifierAsSupplied(
              KeyGidNumber, call.a.gid # None,
              IF call.a.gid = None THEN <<>> ELSE decimal(call.a.gid[1]),
              "getgrall", gid_pool(None, call.env.config), group)
    /\ (call.op = "ldapuseradd") =>
         /\ IdentifierAsSupplied(
              KeyUidNumber, call.a.uid # PyNone, call.a.uid.text,
              "getpwall", range(OLD_ID_MIN, OLD_UID_MAX), passwd)
         /\ IdentifierAsSupplied(
              KeyGidNumber, call.a.gid # PyNone, call.a.gid.text,
              "getgrall", range(OLD_ID_MIN, OLD_GID_MAX), group)

\* The same for user.create alone.
C15_CreateAllocatesIffNotSupplied ==
    (call.op = "user.create") => C15_AllocatedIffNotSupplied

\* The same for ldapuseradd with the options as texts, as docopt gives
\* them.
C15_TextOptionsAsSupplied ==
    (call.op = "ldapuseradd" /\ call.a.uid.type # "int"
       /\ call.a.gid.type # "int") => C15_AllocatedIffNotSupplied


\* The pair of a supplied field: the operation naming the attribute, then
\* the attribute with the new value; nothing for a field that is not
\* supplied.
PairFor(attribute, type, text) ==
    IF text = None THEN <<>>
    ELSE << [name |-> KeyReplace,
             value |-> [type |-> "str", text |-> attribute]],
            [name |-> attribute,
             value |-> [type |-> type, text |-> text[1]]] >>

NumberText(n) == IF n = None THEN None ELSE Some(decimal(n[1]))

\* C16: for every set of modify-user fields that are supplied, the
\* document is dn, `changetype: modify`, and then exactly one pair
\* (`replace: <attr>`, `<attr>: <value>`) per supplied field, the pairs in
\* the fixed order uid, cn, sn, givenName, userPassword, loginShell,
\* uidNumber, gidNumber, homeDirectory; with no field supplied it is dn and
\* changetype alone.
C16_ModifyPairsInOrder ==
    IsBuilt("user.modify") =>
      /\ Len(Document) >= 2
      /\ Document[1].name = KeyDn
      /\ Document[2].name = KeyChangetype
      /\ Document[2].value.text = TextModify
      /\ SubSeq(Document, 3, Len(Document))
           = PairFor(KeyUid, "str", call.a.new_name)
             \o PairFor(KeyCn, "str",
                        IF call.a.first_name # None /\ call.a.last_name # None
                        THEN Some(call.a.first_name[1] \o <<" ">>
                                    \o call.a.last_name[1])
                        ELSE None)
             \o PairFor(KeySn, "str", call.a.last_name)
             \o PairFor(KeyGivenName, "str", call.a.first_name)
             \o PairFor(KeyUserPassword, "str",
                        IF call.a.pwhash # None THEN call.a.pwhash
                        ELSE IF call.a.passwd # None THEN Some(TextH)
                        ELSE None)
             \o PairFor(KeyLoginShell, "str", call.a.shell)
             \o PairFor(KeyUidNumber, "int", NumberText(call.a.uid))
             \o PairFor(KeyGidNumber, "int", NumberText(call.a.gid))
             \o PairFor(KeyHomeDirectory, "str", call.a.home)

\* C16 witness: a modify-user document for which every field is supplied
\* (the password as a hash): dn, changetype and nine pairs.
C16_Witness ==
    /\ IsBuilt("user.modify")
    /\ call.a.new_name # None
    /\ call.a.first_name # None
    /\ call.a.last_name # None
    /\ call.a.pwhash # None
    /\ call.a.shell # None
    /\ call.a.uid = Some(0)
    /\ call.a.gid # None
    /\ call.a.home # None
    /\ Len(Document) = 20
    /\ entry_line(Document[15]) = <<"r", "e", "p", "l", "a", "c", "e", ":",
            " ", "u", "i", "d", "N", "u", "m", "b", "e", "r">>
    /\ entry_line(Document[16]) = <<"u", "i", "d", "N", "u", "m", "b", "e",
            "r", ":", " ", "0">>

\* C16 witness: a modify-user document for which no field is supplied.
C16_WitnessNoField ==
    /\ IsBuilt("user.modify")
    /\ Len(Document) = 2

\* C17: modify-user fails with the incomplete-name error, and leaves no
\* document, not even a partial one, whenever exactly one of first_name
\* and last_name is supplied; with both supplied the cn pair carries the
\* first name, a blank and the last name; with neither supplied the
\* document has no pair for cn, sn or givenName.
C17_IncompleteName ==
    (call.op = "user.modify") =>
      /\ ((call.a.first_name = None) # (call.a.last_name = None)) =>
           /\ call.result.status = "ValueError"
           /\ call.result.message = IncompleteName
           /\ call.result.document = None
      /\ (IsBuilt("user.modify") /\ call.a.first_name # None
            /\ call.a.last_name # None) =>
           \E i \in 3..(Len(Document) - 1) :
              /\ Document[i] = LDIFEntry(KeyReplace, PyStr(KeyCn))
              /\ Document[i + 1]
                   = LDIFEntry(KeyCn,
                               PyStr(call.a.first_name[1] \o <<" ">>
                                       \o call.a.last_name[1]))
      /\ (IsBuilt("user.modify") /\ call.a.first_name = None
            /\ call.a.last_name = None) =>
           \A i \in 1..Len(Document) :
              /\ Document[i].name \notin {KeyCn, KeySn, KeyGivenName}
              /\ Document[i].value.text \notin {KeyCn, KeySn, KeyGivenName}

\* C17 witness: a modify-user call with a new login name and a first name
\* but no last name: the generator had yielded dn, changetype and the uid
\* pair when it failed, and the call leaves no document.
C17_Witness ==
    /\ call.op = "user.modify"
    /\ call.a.new_name # None
    /\ call.a.first_name # None
    /\ call.a.last_name = None
    /\ call.result.status = "ValueError"
    /\ Len(user_modify_generator(call.a, call.env).yielded) = 4
    /\ call.result.document = None

\* C17 witness: both names supplied, and the pair `cn: Jane Doe`.
C17_WitnessBoth ==
    /\ IsBuilt("user.modify")
    /\ \E i \in 1..Len(Document) :
         entry_line(Document[i]) = <<"c", "n", ":", " ", "J", "a", "n", "e",
                 " ", "D", "o", "e">>

\* C18: an add-member document is dn, `changetype: modify`,
\* `add: memberUid`, `memberUid: <member>`, and a remove-member document
\* is the same with `delete: memberUid` in the third place; neither has
\* any further entry.
C18_MemberChange ==
    /\ (call.op \in {"group.add", "group.remove"}) =>
         /\ call.result.status = "ok"
         /\ call.result.document # None
         /\ Len(Document) = 4
         /\ Document[1].name = KeyDn
         /\ entry_line(Document[2]) = <<"c", "h", "a", "n", "g", "e", "t",
                 "y", "p", "e", ":", " ", "m", "o", "d", "i", "f", "y">>
         /\ entry_line(Document[4])
              = <<"m", "e", "m", "b", "e", "r", "U", "i", "d", ":",
                      " ">> \o call.a.member
    /\ (call.op = "group.add") =>
         entry_line(Document[3]) = <<"a", "d", "d", ":", " ", "m", "e", "m",
                 "b", "e", "r", "U", "i", "d">>
    /\ (call.op = "group.remove") =>
         entry_line(Document[3]) = <<"d", "e", "l", "e", "t", "e", ":", " ",
                 "m", "e", "m", "b", "e", "r", "U", "i", "d">>

\* C18 witness: the document that takes jdoe out of the group grp.
C18_Witness ==
    /\ IsBuilt("group.remove")
    /\ call.a.member = TextJdoe
    /\ [i \in 1..4 |-> entry_line(Document[i])]
         = <<<<"d", "n", ":", " ", "c", "n", "=", "g", "r", "p", ",", "o",
                 "u", "=", "G", "r", "o", "u", "p", ",", "d", "c", "=", "e",
                 "x", "a", "m", "p", "l", "e", ",", "d", "c", "=", "c", "o",
                 "m">>,
             <<"c", "h", "a", "n", "g", "e", "t", "y", "p", "e", ":", " ",
                     "m", "o", "d", "i", "f", "y">>, <<"d", "e", "l", "e",
                     "t", "e", ":", " ", "m", "e", "m", "b", "e", "r", "U",
                     "i", "d">>,
             <<"m", "e", "m", "b", "e", "r", "U", "i", "d", ":", " ", "j",
                     "d", "o", "e">>>>

\* C18 witness: the document that puts jdoe into the group grp.
C18_WitnessAdd ==
    /\ IsBuilt("group.add")
    /\ entry_line(Document[3]) = <<"a", "d", "d", ":", " ", "m", "e", "m",
            "b", "e", "r", "U", "i", "d">>
    /\ entry_line(Document[4]) = <<"m", "e", "m", "b", "e", "r", "U", "i",
            "d", ":", " ", "j", "d", "o", "e">>


EntriesNamed(document, name) ==
    SelectSeq(document, LAMBDA entry : entry.name = name)

\* C19: the create-group document carries cn with the name of the group,
\* exactly one gidNumber entry whose value is an integer identifier (the
\* supplied gid, or a free GID allocated from the group pool when none is
\* supplied, never an unset value), and one memberUid entry per given
\* member in the order of the caller.
C19_CreateGroup ==
    IsBuilt("group.create") =>
      /\ Document[1].name = KeyDn
      /\ EntriesNamed(Document, KeyCn)
           = <<LDIFEntry(KeyCn, PyStr(call.a.name))>>
      /\ Len(EntriesNamed(Document, KeyGidNumber)) = 1
      /\ EntryNamed(Document, KeyGidNumber).value.type = "int"
      /\ IF call.a.gid # None
         THEN EntryNamed(Document, KeyGidNumber).value
                = PyInt(call.a.gid[1])
         ELSE LowestFree(EntryNamed(Document, KeyGidNumber).value,
                         gid_pool(None, call.env.config), group)
      /\ EntriesNamed(Document, KeyMemberUid)
           = [i \in 1..Len(call.a.members) |->
                LDIFEntry(KeyMemberUid, PyStr(call.a.members[i]))]

\* The same for the calls that supply a gid.
C19_CreateGroupWithGid ==
    (call.op = "group.create" /\ call.a.gid # None) => C19_CreateGroup


\* An argument that is passed and is not None.
Given(argument) == argument.passed /\ argument.value # None

OlderAllocators ==
    {"misc.get_uid", "misc.get_gid", "ldaptools.get_uid",
     "ldaptools.get_gid"}

\* The bounds the configuration sets for the allocator.
ConfiguredMin ==
    IF call.allocator \in ForUids THEN call.env.config.min_uid
    ELSE call.env.config.min_gid

ConfiguredMax ==
    IF call.allocator \in ForUids THEN call.env.config.max_uid
    ELSE call.env.config.max_gid

\* C20: every builder parameter resolves by a two-level default: the
\* explicit argument of the call when given, otherwise the value of the
\* configuration (ou and domain for every user and group builder, shell
\* and home for create-user); the pool of identifiers is the explicit
\* pool, otherwise the configured minimum and maximum, otherwise the
\* hardcoded half-open range [2000, 65545).
C20_TwoLevelDefaults ==
    /\ (call.op = "with_fallback") =>
         /\ call.result.ou
              = IF Given(call.a.ou) THEN call.a.ou.value[1]
                ELSE IF call.builder \in UserBuilders
                     THEN call.env.config.user_ou
                     ELSE call.env.config.group_ou
         /\ call.result.domain
              = IF Given(call.a.domain) THEN call.a.domain.value[1]
                ELSE call.env.config.domain
    /\ (call.op = "allocator" /\ call.allocator \notin OlderAllocators) =>
         call.pool
           = IF Given(call.a.pool) THEN call.a.pool.value[1]
             ELSE [lo |-> IF ConfiguredMin # None THEN ConfiguredMin[1]
                          ELSE 2000,
                   hi |-> IF ConfiguredMax # None THEN ConfiguredMax[1]
                          ELSE 65545]
    /\ (call.op = "allocator" /\ call.allocator \in OlderAllocators) =>
         call.pool
           = [lo |-> IF call.a.min_.passed THEN call.a.min_.value
                     ELSE IF ConfiguredMin # None THEN ConfiguredMin[1]
                     ELSE 2000,
              hi |-> IF call.a.max_.passed THEN call.a.max_.value
                     ELSE IF ConfiguredMax # None THEN ConfiguredMax[1]
                     ELSE 65545]
    /\ IsBuilt("user.create") =>
         /\ EntryNamed(Document, KeyLoginShell).value.text
              = IF call.a.shell # None THEN call.a.shell[1]
                ELSE call.env.config.shell
         /\ Returned(EntryNamed(Document, KeyHomeDirectory).value.text)
              = format(IF call.a.home # None THEN call.a.home[1]
                       ELSE call.env.config.home,
                       call.a.name)

\* The same without the domain of group.create and without the allocators
\* of misc.py and ldaptools.py.
C20_TwoLevelDefaultsElsewhere ==
    (~(call.op = "with_fallback" /\ call.builder = "group.create")
       /\ ~(call.op = "allocator" /\ call.allocator \in OlderAllocators))
      => C20_TwoLevelDefaults

(***************************************************************************)
(* The order of the objectClass entries.                                   *)
(***************************************************************************)
\* The class names as the configuration lists them: stripped, the empty
\* ones left out, in the order of the option.
Listed(string) ==
    IF string = None THEN <<>>
    ELSE SelectSeq([i \in 1..Len(split(string[1], ",")) |->
                      strip(split(string[1], ",")[i])],
                   LAMBDA clas : clas # <<>>)

ConfiguredClasses ==
    IF call.op = "user.create" THEN call.env.config.user_classes
    ELSE call.env.config.group_classes

\* C25: create-user and create-group emit exactly one objectClass entry for
\* each class name listed in the configuration (stripped, empty names
\* skipped), in the order in which the classes are listed there.
C25_ClassesInListedOrder ==
    (IsBuilt("user.create") \/ IsBuilt("group.create")) =>
      EntriesNamed(Document, KeyObjectClass)
        = [i \in 1..Len(Listed(ConfiguredClasses)) |->
             LDIFEntry(KeyObjectClass, PyStr(Listed(ConfiguredClasses)[i]))]

\* What holds of the order: the entries are the distinct listed names, one
\* entry each, in some order.
C25_OneEntryPerDistinctClass ==
    (IsBuilt("user.create") \/ IsBuilt("group.create")) =>
      LET found == EntriesNamed(Document, KeyObjectClass)
      IN  /\ {found[i].value.text : i \in 1..Len(found)}
               = classes(ConfiguredClasses)
          /\ Len(found) = Cardinality(classes(ConfiguredClasses))

\* A group document built from `top,posixGroup` with posixGroup in front.
C25_WitnessReversed ==
    /\ IsBuilt("group.create")
    /\ Listed(ConfiguredClasses) = <<ClassTop, ClassPosixGroup>>
    /\ EntriesNamed(Document, KeyObjectClass)
         = <<LDIFEntry(KeyObjectClass, PyStr(ClassPosixGroup)),
             LDIFEntry(KeyObjectClass, PyStr(ClassTop))>>

(***************************************************************************)
(* The password field of modify-user.                                      *)
(***************************************************************************)
IsModify == call.op = "user.modify"

\* The names do not stop the builder before it reaches the password.
NamesConsistent == (call.a.first_name = None) <=> (call.a.last_name = None)

Hashings == SelectSeq(call.result.trace, LAMBDA step : step = "slappasswd")

\* The entries of the document that belong to the password.
PasswordEntries ==
    SelectSeq(Document,
              LAMBDA entry :
                \/ entry.name = KeyUserPassword
                \/ entry.name = KeyReplace
                   /\ entry.value.text = KeyUserPassword)

\* C26: in modify-user, with neither passwd nor pwhash the hashing utility
\* is not run, the password raises no error and the document has no
\* userPassword pair; with exactly one of them, and the resolver returning,
\* the document has exactly one pair `replace: userPassword`,
\* `userPassword: <result of the resolver>`, and when the hashing utility
\* fails its failure ends the builder without a document; with both the
\* builder fails with the ambiguous-credential error, without a document
\* and without a run of the hashing utility.
C26_PasswordNoOp ==
    (IsModify /\ NamesConsistent) =>
      LET a == call.a
          r == call.result
          run == call.env.run
      IN  /\ (a.passwd = None /\ a.pwhash = None) =>
               /\ r.status = "ok"
               /\ Hashings = <<>>
               /\ PasswordEntries = <<>>
          /\ (a.passwd = None /\ a.pwhash # None) =>
               /\ r.status = "ok"
               /\ Hashings = <<>>
               /\ PasswordEntries
                    = PairFor(KeyUserPassword, "str", a.pwhash)
          /\ (a.passwd # None /\ a.pwhash = None /\ run.exit = 0) =>
               /\ r.status = "ok"
               /\ Hashings = <<"slappasswd">>
               /\ PasswordEntries
                    = PairFor(KeyUserPassword, "str",
                              Some(strip(run.stdout)))
          /\ (a.passwd # None /\ a.pwhash = None /\ run.exit # 0) =>
               /\ r.status = "CalledProcessError"
               /\ Hashings = <<"slappasswd">>
               /\ r.document = None
          /\ (a.passwd # None /\ a.pwhash # None) =>
               /\ r.status = "ValueError"
               /\ r.message = AmbiguousCredential
               /\ Hashings = <<>>
               /\ r.document = None

\* C26 witness: a modify-user call without passwd and pwhash that changes
\* the shell only: the document is dn, changetype and the loginShell pair.
C26_Witness ==
    /\ IsBuilt("user.modify")
    /\ call.a.passwd = None /\ call.a.pwhash = None
    /\ call.a.shell # None
    /\ Len(Document) = 4
    /\ PasswordEntries = <<>>
    /\ call.result.trace = <<>>

\* C26 witness: a passwd alone, hashed by the utility.
C26_WitnessHashed ==
    /\ IsBuilt("user.modify")
    /\ call.a.passwd = Some(TextP) /\ call.a.pwhash = None
    /\ Len(PasswordEntries) = 2
    /\ entry_line(PasswordEntries[2]) = KeyUserPassword \o <<":", " ", "h">>

\* C26 witness: passwd and pwhash together.
C26_WitnessBoth ==
    /\ IsModify /\ NamesConsistent
    /\ call.a.passwd # None /\ call.a.pwhash # None
    /\ call.result.status = "ValueError"
    /\ call.result.document = None

(***************************************************************************)
(* What the invocations write and what they remember.                      *)
(***************************************************************************)
Lowest(S) == CHOOSE v \in S : \A w \in S : v <= w

\* The identifier a create step puts into the document: the supplied one,
\* or the lowest member of the pool that the database does not hold.
Determined(supplied, pool, used) ==
    IF supplied # None THEN supplied
    ELSE Some(Lowest(FreeMembers(pool, used)))

\* The step is the sink committing a document.
SinkCommits == directory' # directory

\* C24: no step writes the account or the group database of the system,
\* the content the allocator reads changes only when the sink commits a
\* document, and what a create step puts into its document is determined
\* by its arguments, the configured pool and the content of the database
\* at that step, whatever ran before it and whatever the other
\* invocations hold.
C24_NoWritesNoMemory ==
    [][/\ passwd' = passwd
       /\ group' = group
       /\ ~SinkCommits => /\ UidDatabase' = UidDatabase
                          /\ GidDatabase' = GidDatabase
       /\ \A p \in Procs :
            /\ (pc[p] = "start" /\ pc'[p] = "uid") =>
                 doc'[p].uidNumber
                   = Determined(args[p].uid, ConfigPool, UidDatabase)
            /\ (pc[p] = "uid" /\ pc'[p] = "built") =>
                 doc'[p].gidNumber
                   = Determined(args[p].gid, ConfigPool, GidDatabase)
            /\ (pc[p] # "failed" /\ pc'[p] = "failed") => doc'[p] = doc[p]
            /\ \A q \in Procs \ {p} :
                 (pc'[p] # pc[p]) => /\ doc'[q] = doc[q]
                                     /\ args'[q] = args[q]
                                     /\ pc'[q] = pc[q]]_vars

\* C24 witness: an invocation has allocated its uid after the document of
\* another one was committed and while the local databases are as they
\* were at the start; the identifier is the lowest one free at that time.
C24_Witness ==
    \E p \in Procs, q \in Procs :
        /\ p # q
        /\ pc[p] = "done"
        /\ pc[q] \in {"uid", "built"}
        /\ AllocatedUid(p) /\ AllocatedUid(q)
        /\ dbAtRead[q].uid = passwd \cup {doc[p].uidNumber[1]}
        /\ doc[q].uidNumber
             = Some(Lowest(FreeMembers(ConfigPool, dbAtRead[q].uid)))
        /\ doc[q].uidNumber # doc[p].uidNumber

\* C24 witness: an invocation has failed and another one, started after
\* it, has built its document as if the first had never run.
C24_WitnessAfterFailure ==
    \E p \in Procs, q \in Procs :
        /\ p # q
        /\ pc[p] = "failed"
        /\ pc[q] = "built"
        /\ directory = <<>>
        /\ AllocatedUid(q)
        /\ doc[q].uidNumber = Some(Lowest(FreeMembers(ConfigPool, passwd)))

(***************************************************************************)
(* The command line operations: ldapuser add, modify and delete, ldapgroup *)
(* add, modify, delete, add-member and remove-member, and ldapuseradd of   *)
(* the older interface.  An operation builds a document (delete: a DN),    *)
(* writes it to a temporary file and runs the directory utility on it.     *)
(***************************************************************************)
Deletes == {"ldapuser.delete", "ldapgroup.delete"}
Loops == {"ldapgroup.add-member", "ldapgroup.remove-member"}
Single ==
    {"ldapuser.add", "ldapuser.modify", "ldapuser.delete", "ldapgroup.add",
     "ldapgroup.modify", "ldapgroup.delete", "ldapuseradd"}

\* The handlers whose try block holds the call of the builder.
Guarded == {"ldapuser.add", "ldapuser.modify"} \cup Loops

\* args.option or CONFIG.get(section, option): an option that is None or
\* empty gives way to the configuration.
or_config(option, configured) ==
    IF option = None \/ option[1] = <<>> THEN configured ELSE option[1]

\* ldapuser._add: the password of the arguments or a generated one, and
\* the call of create.
ldapuser_add_create(a, env) ==
    user_create(
        [name |-> a.name, first_name |-> a.first_name[1],
         last_name |-> a.last_name[1],
         passwd |-> Some(or_config(a.passwd, env.generated)),
         pwhash |-> None, uid |-> a.uid, gid |-> a.gid,
         home |-> Some(or_config(a.home, env.config.home)),
         shell |-> Some(or_config(a.shell, env.config.shell)),
         ou |-> Some(or_config(a.ou, env.config.user_ou)),
         domain |-> Some(or_config(a.domain, env.config.domain))],
        env)

\* ldapuser._modify: the call of modify.
ldapuser_modify_modify(a, env) ==
    user_modify(
        [name |-> a.name, new_name |-> None, uid |-> a.uid, gid |-> a.gid,
         first_name |-> a.first_name, last_name |-> a.last_name,
         passwd |-> a.passwd, pwhash |-> None, home |-> a.home,
         shell |-> a.shell,
         ou |-> Some(or_config(a.ou, env.config.user_ou)),
         domain |-> Some(or_config(a.domain, env.config.domain))],
        env)

\* user.delete(name, ou=, domain=): the DN of the user.
user_delete(a, env) ==
    LET fb == user_with_fallback(a.ou, a.domain, env.config)
    IN  for_user(a.name, fb.domain, fb.ou)

\* group.delete(name, ou=, domain=): the DN of the group.
group_delete(a, env) ==
    LET fb == group_with_fallback(a.ou, a.domain, env.config)
    IN  for_group(a.name, fb.domain, fb.ou)

\* The ou and the domain as the handlers of ldapgroup pass them on.
ldapgroup_location(a, env) ==
    [ou |-> Some(or_config(a.ou, env.config.group_ou)),
     domain |-> Some(or_config(a.domain, env.config.domain))]

\* What the handler of an action builds: the document of the builder it
\* calls (for the member at the index, where it loops over members), or
\* for delete the text of the DN.
built_by(action, a, env, index) ==
    LET at == ldapgroup_location(a, env)
    IN  CASE action = "ldapuser.add" -> ldapuser_add_create(a, env)
          [] action = "ldapuser.modify" -> ldapuser_modify_modify(a, env)
          [] action = "ldapuser.delete" ->
               Outcome("ok",
                       Some(str(user_delete(
                                  [name |-> a.name,
                                   ou |-> Some(or_config(a.ou,
                                                 env.config.user_ou)),
                                   domain |-> at.domain], env))),
                       None, <<>>)
          [] action = "ldapgroup.add" ->
               group_create([name |-> a.name, gid |-> a.gid,
                             members |-> a.member, ou |-> at.ou,
                             domain |-> at.domain], env)
          [] action = "ldapgroup.modify" ->
               group_modify([name |-> a.name, new_name |-> None,
                             gid |-> a.gid, ou |-> at.ou,
                             domain |-> at.domain], env)
          [] action = "ldapgroup.delete" ->
               Outcome("ok",
                       Some(str(group_delete([name |-> a.name,
                                              ou |-> at.ou,
                                              domain |-> at.domain], env))),
                       None, <<>>)
          [] action = "ldapgroup.add-member" ->
               group_add([name |-> a.name, member |-> a.member[index],
                          ou |-> at.ou, domain |-> at.domain], env)
          [] action = "ldapgroup.remove-member" ->
               group_remove([name |-> a.name, member |-> a.member[index],
                             ou |-> at.ou, domain |-> at.domain], env)
          [] OTHER -> ldapuseradd(a, env)

\* A handler that answers every failure of the hashing utility with 1.
after_build_flat(action, built, env) ==
    IF built.status = "ok"
    THEN IF built.document # None THEN [next |-> "open", outcome |-> None]
         ELSE IF action \in Deletes
         THEN [next |-> "spawn", outcome |-> None]
         ELSE [next |-> "done", outcome |-> Some(Returned(built.value[1]))]
    ELSE IF built.status = "CalledProcessError" /\ action \in Guarded
    THEN [next |-> "done", outcome |-> Some(Returned(1))]
    ELSE [next |-> "done", outcome |-> Some(Raised(built.status))]

\* What the handler does with what the builder gave: a document goes to a
\* temporary file and a DN straight to the utility; `except
\* CalledProcessError as error: return error.returncode` ends the
\* operation with the exit status of the hashing utility, the only process
\* a builder runs; every other exception leaves the handler.
after_build(action, built, env) ==
    IF built.status = "ok"
    THEN IF built.document # None THEN [next |-> "open", outcome |-> None]
         ELSE IF action \in Deletes
         THEN [next |-> "spawn", outcome |-> None]
         ELSE [next |-> "done", outcome |-> Some(Returned(built.value[1]))]
    ELSE IF built.status = "CalledProcessError" /\ action \in Guarded
    THEN [next |-> "done", outcome |-> Some(Returned(env.run.exit))]
    ELSE [next |-> "done", outcome |-> Some(Raised(built.status))]

\* str(ldif): the lines of the entries, joined by newlines.
document_text(document) ==
    join(linesep, [i \in 1..Len(document) |-> entry_line(document[i])])

\* NamedTemporaryFile('w', suffix='.ldif'): a new, empty file.
NamedTemporaryFile(name) == [name |-> name, disk |-> <<>>, buffer |-> <<>>]

\* tmp.write(text): the text goes to the buffer of the file object, and
\* what does not fit there, the first n characters, goes on to the disk.
write(file, text, n) ==
    [file EXCEPT !.disk = @ \o SubSeq(text, 1, n),
                 !.buffer = SubSeq(text, n + 1, Len(text))]

\* A flush that leaves the buffer as it is.
flush_nothing(file) == file

\* tmp.flush(): what is in the buffer goes to the disk.
flush(file) == [file EXCEPT !.disk = @ \o file.buffer, !.buffer = <<>>]

\* The utility a handler runs.
utility(action) ==
    CASE action \in {"ldapuser.add", "ldapgroup.add", "ldapuseradd"} ->
           "ldapadd"
      [] action \in Deletes -> "ldapdelete"
      [] OTHER -> "ldapmodify"

\* A loop that keeps the exit status of the first member that failed.
member_return_code_first(return_code, exit) ==
    IF exit # 0 /\ return_code = 0 THEN exit ELSE return_code

\* except CalledProcessError as error: return_code = error.returncode
member_return_code(return_code, exit) ==
    IF exit # 0 THEN exit ELSE return_code

\* What a handler of one document returns after the utility: `except
\* CalledProcessError as error: return error.returncode`, else 0; and for
\* ldapuseradd what its handler makes of the exit status.
after_sink(action, a, env, exit) ==
    IF action = "ldapuseradd"
    THEN LET r == ldapuseradd(a, [env EXCEPT !.ldapadd_exit = exit])
         IN  IF r.status = "ok" THEN Returned(r.value[1])
             ELSE Raised(r.status)
    ELSE IF exit # 0 THEN Returned(exit) ELSE Returned(0)

(***************************************************************************)
(* Specification SpecCli: command line operations, one after the other,    *)
(* with the hashing utility and the directory utilities ending with any    *)
(* exit status.                                                            *)
(***************************************************************************)
ExitCodes == {0, 1, 2}

CliRuns ==
    {[exit |-> 0, stdout |-> <<"h", "\n">>], [exit |-> 1, stdout |-> <<>>],
     [exit |-> 2, stdout |-> <<>>]}

\* The configuration without and with a range of identifiers.
CliConfigs ==
    {BaseConfig,
     [BaseConfig EXCEPT !.min_uid = Some(ConfigPool.lo),
                        !.max_uid = Some(ConfigPool.hi),
                        !.min_gid = Some(ConfigPool.lo),
                        !.max_gid = Some(ConfigPool.hi)]}

\* The parsed arguments: the options that are not given are None.
NoOptions ==
    [name |-> TextJdoe, first_name |-> None, last_name |-> None,
     passwd |-> None, uid |-> None, gid |-> None, shell |-> None,
     home |-> None, ou |-> None, domain |-> None, member |-> <<>>]

CliEnv(config, run) ==
    [config |-> config, run |-> run, order |-> <<>>,
     generated |-> <<"g">>, ldapadd_exit |-> 0]

UserAddArgs ==
    {[NoOptions EXCEPT !.first_name = Some(TextJane),
                       !.last_name = Some(TextDoe), !.passwd = plain,
                       !.uid = uid, !.gid = gid] :
       plain \in Optional({TextP}), uid \in Optional({ID_MIN + 1}),
       gid \in Optional({0})}

UserModifyArgs ==
    {[NoOptions EXCEPT !.first_name = first_name, !.last_name = last_name,
                       !.passwd = plain, !.shell = shell] :
       first_name \in Optional({TextJane}),
       last_name \in Optional({TextDoe}), plain \in Optional({TextP}),
       shell \in Optional({<<"/", "s", "h">>})}

GroupAddArgs ==
    {[NoOptions EXCEPT !.name = TextGrp, !.gid = gid, !.member = members] :
       gid \in Optional({ID_MIN}), members \in MemberLists}

GroupModifyArgs ==
    {[NoOptions EXCEPT !.name = TextGrp, !.gid = gid] :
       gid \in Optional({ID_MIN})}

\* add-member and remove-member take one member or more.
MemberArgs ==
    {[NoOptions EXCEPT !.name = TextGrp, !.member = members] :
       members \in MemberLists \ {<<>>}}

\* The options of ldapuseradd, as docopt gives them.
LdapuseraddOptions ==
    {[dn |-> dn, user |-> TextJdoe, passwd |-> plain, uid |-> uid,
      gid |-> PyNone, shell |-> PyNone, home |-> PyNone, name |-> name,
      title |-> PyNone, phone |-> PyNone, mobile |-> PyNone] :
       dn \in {<<"c", "n", "=", "a", ",", "d", "c", "=", "b">>, <<"a">>},
       plain \in {PyNone, PyStr(TextP)},
       uid \in {PyNone, PyStr(<<"2", "0", "0", "1">>)},
       name \in {PyNone, PyStr(<<"J", "D">>), PyStr(<<"J">>)}}

ArgsOf(action) ==
    CASE action = "ldapuser.add" -> UserAddArgs
      [] action = "ldapuser.modify" -> UserModifyArgs
      [] action = "ldapuser.delete" -> {NoOptions}
      [] action = "ldapgroup.add" -> GroupAddArgs
      [] action = "ldapgroup.modify" -> GroupModifyArgs
      [] action = "ldapgroup.delete" -> {[NoOptions EXCEPT !.name = TextGrp]}
      [] action \in Loops -> MemberArgs
      [] OTHER -> LdapuseraddOptions

\* The hashing utility is run by the user operations only.
RunsOf(action) ==
    IF action \in {"ldapuser.add", "ldapuser.modify", "ldapuseradd"}
    THEN CliRuns
    ELSE {[exit |-> 0, stdout |-> <<"h", "\n">>]}

ConfigsOf(action) ==
    IF action = "ldapuser.add" THEN CliConfigs ELSE {BaseConfig}

InitCli ==
    /\ passwd \in {{}, Members(ConfigPool)}
    /\ group \in {{ID_MIN}, Members(ConfigPool)}
    /\ InitPure

CliFrame == <<passwd, group, directory, pc, args, doc, dbAtRead, call, ldif>>

\* The file of the operation, and the run of the utility in progress.
TmpFile == CHOOSE file \in tmp : file.name = cli.index
LastRun == sink[Len(sink)]

\* main: the arguments are parsed and the configuration is read; what the
\* utilities will do is fixed with the operation.
CliInvoke ==
    /\ cli.pc \in {"idle", "done"}
    /\ \E action \in Single \cup Loops :
         \E a \in ArgsOf(action), config \in ConfigsOf(action),
            run \in RunsOf(action) :
           cli' = [NoCli EXCEPT !.pc = "build", !.action = action,
                                !.a = a, !.env = CliEnv(config, run),
                                !.index = 1]
    /\ sink' = <<>>
    /\ UNCHANGED tmp
    /\ UNCHANGED CliFrame

\* The handler calls the builder, for the next member in a loop.
CliBuild ==
    /\ cli.pc = "build"
    /\ \E built \in {built_by(cli.action, cli.a, cli.env, cli.index)} :
         \E then \in {after_build(cli.action, built, cli.env)} :
           cli' = [cli EXCEPT !.built = built, !.pc = then.next,
                              !.outcome = then.outcome]
    /\ UNCHANGED <<tmp, sink>>
    /\ UNCHANGED CliFrame

\* with NamedTemporaryFile('w', suffix='.ldif') as tmp
OpenTmp ==
    /\ cli.pc = "open"
    /\ tmp' = tmp \cup {NamedTemporaryFile(cli.index)}
    /\ cli' = [cli EXCEPT !.pc = "write"]
    /\ UNCHANGED sink
    /\ UNCHANGED CliFrame

\* tmp.write(str(ldif))
WriteTmp ==
    /\ cli.pc = "write"
    /\ LET text == document_text(cli.built.document[1])
       IN  \E n \in {0, Len(text) \div 2} :
             tmp' = (tmp \ {TmpFile}) \cup {write(TmpFile, text, n)}
    /\ cli' = [cli EXCEPT !.pc = "flush"]
    /\ UNCHANGED sink
    /\ UNCHANGED CliFrame

\* tmp.flush()
FlushTmp ==
    /\ cli.pc = "flush"
    /\ tmp' = (tmp \ {TmpFile}) \cup {flush(TmpFile)}
    /\ cli' = [cli EXCEPT !.pc = "spawn"]
    /\ UNCHANGED sink
    /\ UNCHANGED CliFrame

\* run([utility, '-D', master, '-W', '-f', path], check=True), respectively
\* run([ldapdelete, '-D', master, dn, '-W'], check=True): the utility
\* starts, and finds in the file what is on the disk.
Spawn ==
    /\ cli.pc = "spawn"
    /\ sink' = Append(sink,
                      IF cli.action \in Deletes
                      THEN [utility |-> utility(cli.action), file |-> None,
                            found |-> None, dn |-> cli.built.value,
                            exit |-> None]
                      ELSE [utility |-> utility(cli.action),
                            file |-> Some(cli.index),
                            found |-> IF \E file \in tmp :
                                           file.name = cli.index
                                      THEN Some(TmpFile.disk)
                                      ELSE None,
                            dn |-> None, exit |-> None])
    /\ cli' = [cli EXCEPT !.pc = "running"]
    /\ UNCHANGED tmp
    /\ UNCHANGED CliFrame

\* The utility ends with an exit status.
UtilityExit ==
    /\ cli.pc = "running"
    /\ \E exit \in ExitCodes :
         sink' = [sink EXCEPT ![Len(sink)].exit = Some(exit)]
    /\ cli' = [cli EXCEPT !.pc = IF cli.action \in Deletes THEN "return"
                                 ELSE "close"]
    /\ UNCHANGED tmp
    /\ UNCHANGED CliFrame

\* The with block is left, by return or by the CalledProcessError of run:
\* the file is closed and removed.
CloseTmp ==
    /\ cli.pc = "close"
    /\ tmp' = {file \in tmp : file.name # cli.index}
    /\ cli' = [cli EXCEPT !.pc = "return"]
    /\ UNCHANGED sink
    /\ UNCHANGED CliFrame

\* The handler returns, or goes on with the next member.
CliReturn ==
    /\ cli.pc = "return"
    /\ LET exit == LastRun.exit[1]
           code == member_return_code(cli.return_code, exit)
       IN  IF cli.action \in Loops
           THEN IF cli.index < Len(cli.a.member)
                THEN cli' = [cli EXCEPT !.return_code = code,
                                        !.index = @ + 1, !.pc = "build"]
                ELSE cli' = [cli EXCEPT !.return_code = code,
                                        !.pc = "done",
                                        !.outcome = Some(Returned(code))]
           ELSE cli' = [cli EXCEPT !.pc = "done",
                                   !.outcome =
                                     Some(after_sink(cli.action, cli.a,
                                                     cli.env, exit))]
    /\ UNCHANGED <<tmp, sink>>
    /\ UNCHANGED CliFrame

NextCli ==
    \/ CliInvoke
    \/ CliBuild
    \/ OpenTmp
    \/ WriteTmp
    \/ FlushTmp
    \/ Spawn
    \/ UtilityExit
    \/ CloseTmp
    \/ CliReturn

SpecCli == InitCli /\ [][NextCli]_vars

(***************************************************************************)
(* Failures of the collaborators in the user operations.                   *)
(***************************************************************************)
UserOperation == cli.action \in {"ldapuser.add", "ldapuser.modify"}

\* The builder of the operation has been called.
BuilderCalled == cli.pc \notin {"idle", "build"}

\* The builder asks for a hash: create always does, modify when a password
\* is given and the names have not stopped it before.
Hashes_ ==
    \/ cli.action = "ldapuser.add"
    \/ /\ cli.action = "ldapuser.modify"
       /\ cli.a.passwd # None
       /\ (cli.a.first_name = None) <=> (cli.a.last_name = None)

HashingFails == Hashes_ /\ cli.env.run.exit # 0

\* Every member of the pool is in use.
AllUsed(pool, used) ==
    \A i \in pool.lo..(pool.lo + Cardinality(used)) : i < pool.hi => i \in used

\* create asks the allocator for a uid or a gid and the pool has none.
AllocationFails ==
    /\ cli.action = "ldapuser.add"
    /\ ~HashingFails
    /\ \/ cli.a.uid = None /\ AllUsed(uid_pool(None, cli.env.config), passwd)
       \/ cli.a.gid = None /\ AllUsed(gid_pool(None, cli.env.config), group)

\* C21: when the hashing utility fails, or the allocator raises
\* IdentifiersExhausted, while create-user or modify-user is building, the
\* builder ends with that very error, its caller gets no document, and no
\* directory utility is run and no temporary file written in the
\* operation; and the builder raises these errors in no other case.
C21_FailuresPropagate ==
    (UserOperation /\ BuilderCalled) =>
      /\ HashingFails <=> cli.built.status = "CalledProcessError"
      /\ AllocationFails <=> cli.built.status = "IdentifiersExhausted"
      /\ (HashingFails \/ AllocationFails) =>
           /\ cli.built.document = None
           /\ sink = <<>>
           /\ tmp = {}
           /\ cli.pc = "done"

\* C21 witness: ldapuser add has ended because no uid is left, after the
\* hashing utility had returned a hash: the error is IdentifiersExhausted,
\* there is no document and no utility was run.
C21_Witness ==
    /\ cli.action = "ldapuser.add"
    /\ cli.pc = "done"
    /\ cli.env.run.exit = 0
    /\ cli.a.uid = None
    /\ cli.built.status = "IdentifiersExhausted"
    /\ cli.built.trace = <<"slappasswd", "getpwall">>
    /\ cli.built.document = None
    /\ cli.outcome = Some(Raised("IdentifiersExhausted"))
    /\ sink = <<>>

\* C21 witness: ldapuser modify has ended on the failure of the hashing
\* utility.
C21_WitnessHashing ==
    /\ cli.action = "ldapuser.modify"
    /\ cli.pc = "done"
    /\ cli.built.status = "CalledProcessError"
    /\ cli.built.document = None
    /\ sink = <<>>

\* C22: when the hashing utility exits with a non-zero status in ldapuser
\* add or modify, the operation ends at once with that exit status as its
\* return code, and no directory utility is run in the operation.
C22_HashingFailureIsFinal ==
    (UserOperation /\ BuilderCalled /\ HashingFails) =>
      /\ cli.pc = "done"
      /\ cli.outcome = Some(Returned(cli.env.run.exit))
      /\ cli.env.run.exit # 0
      /\ sink = <<>>

\* C22 witness: ldapuser add has returned 2, the exit status of the
\* hashing utility, without a run of ldapadd.
C22_Witness ==
    /\ cli.action = "ldapuser.add"
    /\ cli.pc = "done"
    /\ cli.env.run.exit = 2
    /\ cli.built.trace = <<"slappasswd">>
    /\ cli.outcome = Some(Returned(2))
    /\ sink = <<>>

\* C22 witness: ldapuser modify with a password has returned 1.
C22_WitnessModify ==
    /\ cli.action = "ldapuser.modify"
    /\ cli.pc = "done"
    /\ cli.a.passwd # None
    /\ cli.env.run.exit = 1
    /\ cli.outcome = Some(Returned(1))
    /\ sink = <<>>

(***************************************************************************)
(* The exit status of the directory utility.                               *)
(***************************************************************************)
\* C23: in every operation on one document (user add, modify and delete,
\* group add, modify and delete) the directory utility is run at most
\* once, and when it has exited the operation returns its exit status: c
\* for a non-zero status c, and 0 for 0.
C23_SinkCodeSurfaced ==
    (cli.action \in Single) =>
      /\ Len(sink) <= 1
      /\ (cli.pc = "done" /\ sink # <<>>) =>
           cli.outcome = Some(Returned(sink[1].exit[1]))

\* The same for the operations of ldapuser and ldapgroup alone.
C23_SinkCodeSurfacedByCli ==
    (cli.action # "ldapuseradd") => C23_SinkCodeSurfaced

\* ldapgroup delete has returned 2, the exit status of ldapdelete, after
\* one run of the utility.
C23_WitnessCli ==
    /\ cli.action = "ldapgroup.delete"
    /\ cli.pc = "done"
    /\ Len(sink) = 1
    /\ sink[1].utility = "ldapdelete"
    /\ sink[1].exit = Some(2)
    /\ cli.outcome = Some(Returned(2))

\* ldapuseradd has ended with an AttributeError after ldapadd had exited
\* with 1.
C23_WitnessLdapuseradd ==
    /\ cli.action = "ldapuseradd"
    /\ cli.pc = "done"
    /\ Len(sink) = 1
    /\ sink[1].exit = Some(1)
    /\ cli.outcome = Some(Raised("AttributeError"))

(***************************************************************************)
(* The loops over the members of a group.                                  *)
(***************************************************************************)
\* The text of the document for the i-th member of the operation.
MemberText(i) ==
    document_text(built_by(cli.action, cli.a, cli.env, i).document[1])

\* The runs of the utility that ended with a non-zero status.
FailedRuns == {i \in 1..Len(sink) : sink[i].exit \notin {None, Some(0)}}

\* C27: add-member and remove-member run ldapmodify once for every given
\* member, in the order of the members and whatever the earlier runs ended
\* with; the operation returns 0 if and only if every run exited with 0,
\* and otherwise the exit status of the last run that failed.
C27_MemberLoop ==
    (cli.action \in Loops) =>
      /\ Len(sink) <= Len(cli.a.member)
      /\ \A i \in 1..Len(sink) :
           /\ sink[i].utility = "ldapmodify"
           /\ sink[i].found = Some(MemberText(i))
      /\ (cli.pc = "done") =>
           /\ Len(sink) = Len(cli.a.member)
           /\ cli.outcome
                = Some(Returned(IF FailedRuns = {} THEN 0
                                ELSE sink[CHOOSE i \in FailedRuns :
                                            \A j \in FailedRuns : j <= i
                                         ].exit[1]))
           /\ (cli.outcome = Some(Returned(0)))
                <=> \A i \in 1..Len(sink) : sink[i].exit = Some(0)

\* C27 witness: add-member for two members has returned 2: the run for
\* the first member exited with 2 and the run for the second, which was
\* made all the same, with 0.
C27_Witness ==
    /\ cli.action = "ldapgroup.add-member"
    /\ cli.pc = "done"
    /\ cli.a.member = <<TextA, TextB>>
    /\ Len(sink) = 2
    /\ sink[1].exit = Some(2)
    /\ sink[2].exit = Some(0)
    /\ cli.outcome = Some(Returned(2))

\* C27 witness: remove-member has returned the status of the last of two
\* failed runs.
C27_WitnessLastFailure ==
    /\ cli.action = "ldapgroup.remove-member"
    /\ cli.pc = "done"
    /\ Len(sink) = 2
    /\ sink[1].exit = Some(1)
    /\ sink[2].exit = Some(2)
    /\ cli.outcome = Some(Returned(2))

(***************************************************************************)
(* The temporary file of a document.                                       *)
(***************************************************************************)
\* C28: a directory utility that is run on a document finds the complete
\* text of the document in its file; the file is on the disk, complete
\* and with nothing left in the buffer, for as long as the utility runs;
\* and once the utility has returned and the with block is left, with any
\* exit status, no temporary file is left.
C28_TemporaryFile ==
    /\ \A i \in 1..Len(sink) :
         sink[i].file # None => sink[i].found = Some(MemberText(i))
    /\ (cli.pc = "running" /\ cli.action \notin Deletes) =>
         \E file \in tmp :
            /\ file.name = cli.index
            /\ file.disk = MemberText(cli.index)
            /\ file.buffer = <<>>
    /\ (cli.pc \in {"idle", "build", "open", "return", "done"}) => tmp = {}
    /\ Cardinality(tmp) <= 1

\* C28 witness: ldapadd is running on the document of ldapuser add, whose
\* ten lines are in the temporary file.
C28_Witness ==
    /\ cli.action = "ldapuser.add"
    /\ cli.pc = "running"
    /\ Len(cli.built.document[1]) = 10
    /\ \E file \in tmp :
          /\ file.disk = document_text(cli.built.document[1])
          /\ Len(split(file.disk, "\n")) = 10
    /\ LastRun.utility = "ldapadd"
    /\ LastRun.exit = None

\* C28 witness: ldapmodify has failed and ldapuser modify has returned its
\* exit status; the file is gone.
C28_WitnessRemoved ==
    /\ cli.action = "ldapuser.modify"
    /\ cli.pc = "done"
    /\ Len(sink) = 1
    /\ sink[1].exit = Some(1)
    /\ sink[1].found # None
    /\ tmp = {}
====
